---- MODULE Spec2Model ----
(***************************************************************************)
(* The serial service of frameworks_native (services/serialservice/rust):  *)
(* DriverTypeFinderImpl (driver_type_finder.rs), DeviceEventsHandler and   *)
(* UsbDeviceId (device_events_handler.rs) and SerialManager                *)
(* (serial_manager.rs).                                                    *)
(*                                                                         *)
(* Text (the drivers file, its lines and fields) is a sequence of          *)
(* one-character strings, so that splitting and parsing are computed.      *)
(***************************************************************************)
EXTENDS Integers, Sequences, FiniteSets, TLC

VARIABLES
    drivers_cache,  \* DriverTypeFinderImpl.drivers_cache: Vec<DriverInfo>
    drivers_file,   \* which contents the file at drivers_file_path has now
    find_log,       \* the find_by_devnum call made by the last step, if any
    serial_ports,   \* SerialManager.serial_ports: port name -> SerialPortInfo
    listeners,      \* SerialManager.listeners: listener binder -> ListenerEntry
    death_links,    \* the (binder, recipient) pairs linked for death notification
    remote,         \* per listener binder, the state of the process hosting it
    handler_pc,     \* where the event task (DeviceEventsHandler::run) stands
    pending,        \* the notification the event task is about to fan out
    history,        \* the last events handled to their end, with the listeners called
    notified,       \* the listener calls that the last step made
    registered_for, \* per registered binder, event starts seen since it registered
    rpc_result,     \* what the ISerialManager call returned that the last step ended
    open_call,      \* the requestOpen call between its check and its open
    open_log,       \* the open() and ioctl() that the last step made
    lock_log,       \* the critical sections of the last step: the locks each held
    listeners_lock, \* the Mutex of listeners: its holder, and the calls waiting for it
    client,         \* what the client that holds a listener knows of the ports
    stream,         \* the event stream: what it carries, how much of it was taken
    driver_type_finder \* the Mutex of the finder: its holder, and each find under way

finder_vars == <<drivers_cache, drivers_file, find_log, driver_type_finder>>

manager_vars ==
    <<serial_ports, listeners, death_links, remote, handler_pc, pending,
      history, notified, registered_for, rpc_result, open_call, open_log, lock_log,
      listeners_lock, client, stream>>

vars == <<finder_vars, manager_vars>>

-----------------------------------------------------------------------------
(* Text helpers: str::lines, str::split_whitespace, str::split, parse<u32> *)

\* The pieces of s between the characters that are in seps, empty pieces
\* kept: one piece more than s has separators.
SplitOn(s, seps) ==
    LET pos == {i \in 1..Len(s) : s[i] \in seps}
        n == Cardinality(pos)
        Nth(k) == CHOOSE p \in pos : Cardinality({q \in pos : q < p}) = k - 1
    IN  [k \in 1..(n + 1) |->
            SubSeq(s, IF k = 1 THEN 1 ELSE Nth(k - 1) + 1,
                      IF k = n + 1 THEN Len(s) ELSE Nth(k) - 1)]

\* str::split(sep)
split(s, sep) == SplitOn(s, {sep})

StripCr(line) ==
    IF line # <<>> /\ line[Len(line)] = "\r" THEN SubSeq(line, 1, Len(line) - 1) ELSE line

\* str::lines(): the pieces between "\n", the "\r" of a "\r\n" ending dropped,
\* and no empty piece after a final "\n".
Lines(s) ==
    LET pieces == SplitOn(s, {"\n"})
        n == Len(pieces)
        kept == IF pieces[n] = <<>> THEN n - 1 ELSE n
    IN  [k \in 1..kept |-> IF k < n THEN StripCr(pieces[k]) ELSE pieces[k]]

WhitespaceChars == {" ", "\t", "\r", "\n"}

IsWhitespace(c) == c \in WhitespaceChars

NonEmpty(piece) == piece # <<>>

\* str::split_whitespace(): the maximal runs of non-whitespace characters.
split_whitespace(line) == SelectSeq(SplitOn(line, WhitespaceChars), NonEmpty)

DecDigits == <<"0", "1", "2", "3", "4", "5", "6", "7", "8", "9">>

DigitValue(c) == CHOOSE d \in 0..9 : DecDigits[d + 1] = c

IsDecDigit(c) == \E d \in 0..9 : DecDigits[d + 1] = c

\* The widest decimal text str::parse::<u32> is given a value for here; longer
\* digit strings are an overflow error (u32::MAX, 4294967295, has 10 digits).
U32SafeDigits == 9

RECURSIVE DecValue(_, _)
DecValue(s, acc) ==
    IF s = <<>> THEN acc ELSE DecValue(Tail(s), 10 * acc + DigitValue(Head(s)))

\* <u32 as FromStr>::from_str: an optional "+", then one or more decimal
\* digits; anything else (empty text, a sign alone, "-", a non-digit, a value
\* that does not fit) is an error.
ParseU32(s) ==
    LET body == IF s # <<>> /\ Head(s) = "+" THEN Tail(s) ELSE s
    IN  IF body = <<>> \/ \E i \in 1..Len(body) : ~IsDecDigit(body[i])
        THEN [ok |-> FALSE, value |-> 0]
        ELSE IF Len(body) > U32SafeDigits
             THEN [ok |-> FALSE, value |-> 0]
             ELSE [ok |-> TRUE, value |-> DecValue(body, 0)]

-----------------------------------------------------------------------------
(* The drivers file                                                        *)

\* "\ntty /dev/tty 5 0 system:/dev/tty\nacm /dev/ttyACM 166 0-255 serial\n
\*  serial /dev/ttyS 4 64-95 serial\n"
FileReal ==
    <<"\n","t","t","y"," ","/","d","e","v","/","t","t","y"," ","5"," ","0"," ","s","y","s","t",
      "e","m",":","/","d","e","v","/","t","t","y","\n","a","c","m"," ","/","d","e","v","/","t",
      "t","y","A","C","M"," ","1","6","6"," ","0","-","2","5","5"," ","s","e","r","i","a","l",
      "\n","s","e","r","i","a","l"," ","/","d","e","v","/","t","t","y","S"," ","4"," ","6","4",
      "-","9","5"," ","s","e","r","i","a","l","\n">>

\* "serial /dev/ttyS   4 64-95 serial\ncon /dev/c 4 80-90 console:x\n"
FileOverlap ==
    <<"s","e","r","i","a","l"," ","/","d","e","v","/","t","t","y","S"," "," "," ","4"," ","6",
      "4","-","9","5"," ","s","e","r","i","a","l","\n","c","o","n"," ","/","d","e","v","/","c",
      " ","4"," ","8","0","-","9","0"," ","c","o","n","s","o","l","e",":","x","\n">>

\* "serial /dev/ttyS 4 64-95 serial\n/dev/tty /dev/tty 5 0\n
\*  acm /dev/ttyACM 166 0-255 serial\n"
FileWrongFields ==
    <<"s","e","r","i","a","l"," ","/","d","e","v","/","t","t","y","S"," ","4"," ","6","4","-",
      "9","5"," ","s","e","r","i","a","l","\n","/","d","e","v","/","t","t","y"," ","/","d","e",
      "v","/","t","t","y"," ","5"," ","0","\n","a","c","m"," ","/","d","e","v","/","t","t","y",
      "A","C","M"," ","1","6","6"," ","0","-","2","5","5"," ","s","e","r","i","a","l","\n">>

\* "tty /dev/tty 5 0 system\nacm /dev/ttyACM 166 00-FF serial"
FileWrongFormat ==
    <<"t","t","y"," ","/","d","e","v","/","t","t","y"," ","5"," ","0"," ","s","y","s","t","e",
      "m","\n","a","c","m"," ","/","d","e","v","/","t","t","y","A","C","M"," ","1","6","6"," ",
      "0","0","-","F","F"," ","s","e","r","i","a","l">>

\* "serial 4 64-95 serial\n": the entry for /dev/ttyS without its device-node
\* prefix.
FileFourFields ==
    <<"s","e","r","i","a","l"," ","4"," ","6","4","-","9","5"," ","s","e","r","i","a","l",
      "\n">>

\* "tty /dev/tty 5 7 system\n \t \n\nacm /dev/ttyACM 166 0-255 serial:a:b\n"
FileBlanks ==
    <<"t","t","y"," ","/","d","e","v","/","t","t","y"," ","5"," ","7"," ","s","y","s","t",
      "e","m","\n"," ","\t"," ","\n","\n","a","c","m"," ","/","d","e","v","/","t","t","y",
      "A","C","M"," ","1","6","6"," ","0","-","2","5","5"," ","s","e","r","i","a","l",":",
      "a",":","b","\n">>

\* "tty /dev/tty 5 0 system\nacm /dev/ttyACM 0xA6 0-255 serial\n"
FileBadMajor ==
    <<"t","t","y"," ","/","d","e","v","/","t","t","y"," ","5"," ","0"," ","s","y","s","t",
      "e","m","\n","a","c","m"," ","/","d","e","v","/","t","t","y","A","C","M"," ","0","x",
      "A","6"," ","0","-","2","5","5"," ","s","e","r","i","a","l","\n">>

\* The contents the drivers file can have; "unreadable" is a file that
\* fs::read_to_string fails on.
FileIds == {"real", "overlap", "wrong_fields", "wrong_format", "unreadable"}

\* The drivers file of a device, and one that has the entry for /dev/ttyS in
\* four fields.
ScenarioFileIds == {"real", "four_fields"}

\* The contents a reload is looked at with: those above, a file with blank
\* lines and a tag of several parts, and one whose major is no decimal number.
ReloadFileIds == FileIds \cup {"blanks", "bad_major"}

\* fs::read_to_string(&self.drivers_file_path)
read_to_string(f) ==
    CASE f = "real"         -> [ok |-> TRUE, text |-> FileReal]
      [] f = "overlap"      -> [ok |-> TRUE, text |-> FileOverlap]
      [] f = "wrong_fields" -> [ok |-> TRUE, text |-> FileWrongFields]
      [] f = "wrong_format" -> [ok |-> TRUE, text |-> FileWrongFormat]
      [] f = "four_fields"  -> [ok |-> TRUE, text |-> FileFourFields]
      [] f = "blanks"       -> [ok |-> TRUE, text |-> FileBlanks]
      [] f = "bad_major"    -> [ok |-> TRUE, text |-> FileBadMajor]
      [] OTHER              -> [ok |-> FALSE, text |-> <<>>]

-----------------------------------------------------------------------------
(* DriverTypeFinderImpl                                                    *)

Ok(v) == [ok |-> TRUE, value |-> v, err |-> "none"]

Err(e) == [ok |-> FALSE, value |-> <<>>, err |-> e]

\* A driver type that is the whole of the last field.
driver_type_untrimmed(field) == field

\* parts[4].split(":").next().unwrap()
driver_type_of(field) == split(field, ":")[1]

\* The DriverInfo pushed for one line of 5 fields; the fields of the struct
\* literal are evaluated in the order written, and each `?` leaves early.
DriverInfoOfParts(parts) ==
    LET driver_type == driver_type_of(parts[5])
        major == ParseU32(parts[3])
        minor == split(parts[4], "-")
        from  == minor[1]
        to    == IF Len(minor) >= 2 THEN minor[2] ELSE from
    IN  IF ~major.ok THEN Err("ParseInt")
        ELSE IF ~ParseU32(from).ok THEN Err("ParseInt")
        ELSE IF ~ParseU32(to).ok THEN Err("ParseInt")
        ELSE Ok([major |-> major.value,
                 minor_from |-> ParseU32(from).value,
                 minor_to |-> ParseU32(to).value,
                 driver_type |-> driver_type])

\* The loop of read_drivers_from_file over the lines still to read; `drivers`
\* is the borrowed cache itself, so what was pushed before a bail! or a `?`
\* stays in it.
RECURSIVE ReadLines(_, _)
ReadLines(lines, drivers) ==
    IF lines = <<>>
    THEN [ok |-> TRUE, err |-> "none", cache |-> drivers]
    ELSE LET parts == split_whitespace(Head(lines))
         IN  IF parts = <<>>
             THEN ReadLines(Tail(lines), drivers)
             ELSE IF Len(parts) # 5
                  THEN [ok |-> FALSE, err |-> "WrongNumberOfFields", cache |-> drivers]
                  ELSE LET d == DriverInfoOfParts(parts)
                       IN  IF ~d.ok
                           THEN [ok |-> FALSE, err |-> d.err, cache |-> drivers]
                           ELSE ReadLines(Tail(lines), Append(drivers, d.value))

\* A reload that skips a line it cannot parse instead of failing on it.
RECURSIVE ReadLinesSkipping(_, _)
ReadLinesSkipping(lines, drivers) ==
    IF lines = <<>>
    THEN [ok |-> TRUE, err |-> "none", cache |-> drivers]
    ELSE LET parts == split_whitespace(Head(lines))
         IN  IF Len(parts) # 5 \/ ~DriverInfoOfParts(parts).ok
             THEN ReadLinesSkipping(Tail(lines), drivers)
             ELSE ReadLinesSkipping(Tail(lines),
                                    Append(drivers, DriverInfoOfParts(parts).value))

ReadDriversFileSkipping(f) ==
    LET content == read_to_string(f)
    IN  IF ~content.ok
        THEN [ok |-> FALSE, err |-> "Io", cache |-> <<>>]
        ELSE ReadLinesSkipping(Lines(content.text), <<>>)

DriversFileReadSkipping ==
    [f \in FileIds \cup ScenarioFileIds \cup ReloadFileIds |-> ReadDriversFileSkipping(f)]

read_drivers_from_file_skipping(f) == DriversFileReadSkipping[f]

\* read_drivers_from_file: clear the cache, then refill it line by line.
ReadDriversFile(f) ==
    LET cleared == <<>>
        content == read_to_string(f)
    IN  IF ~content.ok
        THEN [ok |-> FALSE, err |-> "Io", cache |-> cleared]
        ELSE ReadLines(Lines(content.text), cleared)

\* What read_drivers_from_file comes to for each contents of the file (the
\* same every time the same text is read).
DriversFileRead ==
    [f \in FileIds \cup ScenarioFileIds \cup ReloadFileIds |-> ReadDriversFile(f)]

read_drivers_from_file(f) == DriversFileRead[f]

DriverMatches(d, major, minor) ==
    d.major = major /\ d.minor_from <= minor /\ minor <= d.minor_to

\* A lookup that returns the last matching entry instead of the first.
find_in_cache_last(cache, major, minor) ==
    IF \E i \in 1..Len(cache) : DriverMatches(cache[i], major, minor)
    THEN LET i == CHOOSE k \in 1..Len(cache) :
                     /\ DriverMatches(cache[k], major, minor)
                     /\ \A j \in (k + 1)..Len(cache) : ~DriverMatches(cache[j], major, minor)
         IN  [ok |-> TRUE, value |-> cache[i].driver_type, err |-> "none"]
    ELSE [ok |-> FALSE, value |-> <<>>, err |-> "NotFound"]

\* find_in_cache: Iterator::find, the first matching entry in cache order.
find_in_cache(cache, major, minor) ==
    IF \E i \in 1..Len(cache) : DriverMatches(cache[i], major, minor)
    THEN LET i == CHOOSE k \in 1..Len(cache) :
                     /\ DriverMatches(cache[k], major, minor)
                     /\ \A j \in 1..(k - 1) : ~DriverMatches(cache[j], major, minor)
         IN  Ok(cache[i].driver_type)
    ELSE Err("NotFound")

\* A find_by_devnum that reloads and looks up once more after a second miss.
find_by_devnum_retrying(cache, f, major, minor) ==
    LET retried(result, rd, second) ==
            IF result.ok
            THEN [result |-> result, cache |-> cache, reload |-> "none",
                  file_reads |-> 0, cache_lookups |-> 1]
            ELSE IF ~rd.ok
            THEN [result |-> [ok |-> FALSE, value |-> <<>>, err |-> rd.err],
                  cache |-> rd.cache, reload |-> "failed",
                  file_reads |-> 1, cache_lookups |-> 1]
            ELSE IF second.ok
            THEN [result |-> second, cache |-> rd.cache, reload |-> "ok",
                  file_reads |-> 1, cache_lookups |-> 2]
            ELSE [result |-> second, cache |-> rd.cache, reload |-> "ok",
                  file_reads |-> 2, cache_lookups |-> 3]
    IN  retried(find_in_cache(cache, major, minor), read_drivers_from_file(f),
                find_in_cache(read_drivers_from_file(f).cache, major, minor))

\* find_by_devnum as a function of the cache and the file: the result, the
\* cache it leaves, and how often it read the file and searched the cache.
find_by_devnum(cache, f, major, minor) ==
    LET hit(result) ==
            [result |-> result, cache |-> cache, reload |-> "none",
             file_reads |-> 0, cache_lookups |-> 1]
        \* self.read_drivers_from_file()?; self.find_in_cache(major, minor)
        reloaded(rd) ==
            IF ~rd.ok
            THEN [result |-> Err(rd.err), cache |-> rd.cache, reload |-> "failed",
                  file_reads |-> 1, cache_lookups |-> 1]
            ELSE [result |-> find_in_cache(rd.cache, major, minor),
                  cache |-> rd.cache, reload |-> "ok",
                  file_reads |-> 1, cache_lookups |-> 2]
        looked_up(result) ==
            IF result.ok THEN hit(result) ELSE reloaded(read_drivers_from_file(f))
    IN  looked_up(find_in_cache(cache, major, minor))

NoFind ==
    [called |-> FALSE, major |-> 0, minor |-> 0, file |-> "unreadable",
     cache_before |-> <<>>, cache_after |-> <<>>, result |-> Err("none"),
     reload |-> "none", file_reads |-> 0, cache_lookups |-> 0,
     metadata_queries |-> 0]

\* A find_by_devnum call with what it was given and what it did.
FindLog(cache, f, major, minor) ==
    LET logged(r) ==
            [called |-> TRUE, major |-> major, minor |-> minor, file |-> f,
             cache_before |-> cache, cache_after |-> r.cache, result |-> r.result,
             reload |-> r.reload, file_reads |-> r.file_reads,
             cache_lookups |-> r.cache_lookups, metadata_queries |-> 0]
    IN  logged(find_by_devnum(cache, f, major, minor))

\* The device numbers looked up.
Majors == {4, 5, 166}

Minors == {0, 80, 95, 96}

\* The tasks that can hold the Arc<Mutex<dyn DriverTypeFinder + Send>>: the
\* event task, which start_new moves it into, and the caller of start_new,
\* which can keep a clone of the Arc (SerialManager::new keeps none).
FinderUsers == {"event_task", "start_new_caller"}

NoFinderCall ==
    [pc |-> "none", major |-> 0, minor |-> 0, cache_before |-> <<>>, lines |-> <<>>]

\* The Mutex unlocked and no find under way.
NoFinderCalls == [holder |-> "none", calls |-> [u \in FinderUsers |-> NoFinderCall]]

\* A Mutex that lets every lock() through.
FinderLockFreeAlways == TRUE

\* self.driver_type_finder.lock() returns only while no guard is alive.
FinderLockFree == driver_type_finder.holder = "none"

\* DriverTypeFinderImpl::new_from_file: an empty cache; Mutex::new: unlocked.
FinderInit ==
    /\ drivers_cache = <<>>
    /\ drivers_file \in FileIds
    /\ find_log = NoFind
    /\ driver_type_finder = NoFinderCalls

\* A call of find_by_devnum(major, minor) on the finder.
FindByDevnum(major, minor) ==
    /\ find_log' = FindLog(drivers_cache, drivers_file, major, minor)
    /\ drivers_cache' = find_log'.cache_after
    /\ UNCHANGED <<drivers_file, driver_type_finder, manager_vars>>

\* The find of task u going on to pc.
FindGoesOn(u, pc, lines) ==
    /\ driver_type_finder' =
           [driver_type_finder EXCEPT !.calls[u].pc = pc, !.calls[u].lines = lines]
    /\ find_log' = NoFind

\* The find of task u returning: the block of the guard ends with the call, so
\* the guard is dropped and the Mutex unlocked.
FindReturns(u, result, reload, file_reads, cache_lookups) ==
    LET call == driver_type_finder.calls[u]
    IN  /\ driver_type_finder' =
               [holder |-> IF driver_type_finder.holder = u THEN "none"
                           ELSE driver_type_finder.holder,
                calls |-> [driver_type_finder.calls EXCEPT ![u] = NoFinderCall]]
        /\ find_log' =
               [called |-> TRUE, major |-> call.major, minor |-> call.minor,
                file |-> drivers_file, cache_before |-> call.cache_before,
                cache_after |-> drivers_cache', result |-> result, reload |-> reload,
                file_reads |-> file_reads, cache_lookups |-> cache_lookups,
                metadata_queries |-> 0]

\* Task u locks the Mutex and calls find; get_devnum gives (major, minor).
FindLocks(u, major, minor) ==
    /\ FinderLockFree
    /\ driver_type_finder.calls[u].pc = "none"
    /\ driver_type_finder' =
           [holder |-> u,
            calls |-> [driver_type_finder.calls EXCEPT ![u] =
                          [pc |-> "lookup", major |-> major, minor |-> minor,
                           cache_before |-> drivers_cache, lines |-> <<>>]]]
    /\ find_log' = NoFind
    /\ UNCHANGED <<drivers_cache, drivers_file, manager_vars>>

\* find_by_devnum: the first find_in_cache, and the return on a hit.
FindLooksUp(u) ==
    /\ driver_type_finder.calls[u].pc = "lookup"
    /\ LET call == driver_type_finder.calls[u]
           result == find_in_cache(drivers_cache, call.major, call.minor)
       IN  /\ UNCHANGED <<drivers_cache, drivers_file, manager_vars>>
           /\ IF result.ok
              THEN FindReturns(u, result, "none", 0, 1)
              ELSE FindGoesOn(u, "clear", <<>>)

\* read_drivers_from_file: borrow_mut, clear, and read_to_string; its `?`
\* returns from find_by_devnum with the cache cleared.
ReloadClears(u) ==
    /\ driver_type_finder.calls[u].pc = "clear"
    /\ drivers_cache' = <<>>
    /\ UNCHANGED <<drivers_file, manager_vars>>
    /\ LET content == read_to_string(drivers_file)
       IN  IF ~content.ok
           THEN FindReturns(u, Err("Io"), "failed", 1, 1)
           ELSE FindGoesOn(u, "refill", Lines(content.text))

\* One turn of the loop of read_drivers_from_file: a blank line is passed
\* over, a line that is not five fields or has a field that does not parse
\* returns from find_by_devnum, any other line is pushed.
ReloadPushes(u) ==
    /\ driver_type_finder.calls[u].pc = "refill"
    /\ driver_type_finder.calls[u].lines # <<>>
    /\ UNCHANGED <<drivers_file, manager_vars>>
    /\ LET lines == driver_type_finder.calls[u].lines
           parts == split_whitespace(Head(lines))
       IN  IF parts = <<>>
           THEN /\ drivers_cache' = drivers_cache
                /\ FindGoesOn(u, "refill", Tail(lines))
           ELSE IF Len(parts) # 5
           THEN /\ drivers_cache' = drivers_cache
                /\ FindReturns(u, Err("WrongNumberOfFields"), "failed", 1, 1)
           ELSE IF ~DriverInfoOfParts(parts).ok
           THEN /\ drivers_cache' = drivers_cache
                /\ FindReturns(u, Err(DriverInfoOfParts(parts).err), "failed", 1, 1)
           ELSE /\ drivers_cache' = Append(drivers_cache, DriverInfoOfParts(parts).value)
                /\ FindGoesOn(u, "refill", Tail(lines))

\* The loop is over: Ok(()), and the borrow_mut guard is dropped.
ReloadEnds(u) ==
    /\ driver_type_finder.calls[u].pc = "refill"
    /\ driver_type_finder.calls[u].lines = <<>>
    /\ FindGoesOn(u, "lookup_again", <<>>)
    /\ UNCHANGED <<drivers_cache, drivers_file, manager_vars>>

\* find_by_devnum: the second find_in_cache, whose result is returned.
FindLooksUpAgain(u) ==
    /\ driver_type_finder.calls[u].pc = "lookup_again"
    /\ UNCHANGED <<drivers_cache, drivers_file, manager_vars>>
    /\ LET call == driver_type_finder.calls[u]
       IN  FindReturns(u, find_in_cache(drivers_cache, call.major, call.minor),
                       "ok", 1, 2)

-----------------------------------------------------------------------------
(* Devices, events and UsbDeviceId                                         *)

\* Option<T>: None is the empty sequence, Some(x) the sequence of x alone.
None == <<>>

Some(x) == <<x>>

HexDigits ==
    <<"0", "1", "2", "3", "4", "5", "6", "7", "8", "9", "a", "b", "c", "d", "e", "f">>

HexDigitsUpper ==
    <<"0", "1", "2", "3", "4", "5", "6", "7", "8", "9", "A", "B", "C", "D", "E", "F">>

IsHexDigit(c) == \E d \in 0..15 : HexDigits[d + 1] = c \/ HexDigitsUpper[d + 1] = c

HexDigitValue(c) == CHOOSE d \in 0..15 : HexDigits[d + 1] = c \/ HexDigitsUpper[d + 1] = c

RECURSIVE HexValue(_, _)
HexValue(s, acc) ==
    IF s = <<>> THEN acc ELSE HexValue(Tail(s), 16 * acc + HexDigitValue(Head(s)))

\* str::trim(): leading and trailing whitespace removed.
trim(s) ==
    LET keep == {i \in 1..Len(s) : ~IsWhitespace(s[i])}
    IN  IF keep = {} THEN <<>>
        ELSE SubSeq(s, CHOOSE i \in keep : \A j \in keep : i <= j,
                       CHOOSE i \in keep : \A j \in keep : j <= i)

\* The most hexadecimal digits i32::from_str_radix is given a value for here
\* (i32::MAX is 7fffffff); longer digit strings are an overflow error.
I32SafeHexDigits == 7

\* i32::from_str_radix(text, 16): an optional sign, then one or more
\* hexadecimal digits.
from_str_radix_16(s) ==
    LET signed == s # <<>> /\ Head(s) \in {"+", "-"}
        body == IF signed THEN Tail(s) ELSE s
    IN  IF body = <<>> \/ \E i \in 1..Len(body) : ~IsHexDigit(body[i])
        THEN [ok |-> FALSE, value |-> 0]
        ELSE IF Len(body) > I32SafeHexDigits
             THEN [ok |-> FALSE, value |-> 0]
             ELSE [ok |-> TRUE,
                   value |-> IF signed /\ Head(s) = "-" THEN 0 - HexValue(body, 0)
                             ELSE HexValue(body, 0)]

\* read_hex_attr(attrs, name): attrs.get(name)? then trim and parse; attr is
\* the Option of the attribute's text.
read_hex_attr(attr) ==
    IF attr = None THEN [ok |-> FALSE, value |-> 0]
    ELSE from_str_radix_16(trim(attr[1]))

\* A sysfs device: the subsystem of its "device" directory (if any) and its
\* ancestors, nearest first, each with its subsystem and USB id attributes.
Ancestor(subsystem, idVendor, idProduct) ==
    [subsystem |-> subsystem, idVendor |-> idVendor, idProduct |-> idProduct]

\* create_usb_device_in_mock_sysfs: .../usb3/3-8/3-8:1.1/tty/ttyACM0
UsbDevice ==
    [device_subsystem |-> Some("usb"),
     ancestors |-> <<Ancestor("usb", None, None),
                     Ancestor("usb", Some(<<"0","6","9","4","\n">>),
                                     Some(<<"0","0","0","9","\n">>))>>]

\* create_uart_device_in_mock_sysfs: .../dw-apb-uart.6:0.0/tty/ttyS0
UartDevice ==
    [device_subsystem |-> Some("serial-base"),
     ancestors |-> <<Ancestor("serial-base", None, None)>>]

\* A device with no "device" directory, below a USB device whose idProduct
\* does not parse.
VirtualDevice ==
    [device_subsystem |-> None,
     ancestors |-> <<Ancestor("usb", Some(<<"x","y">>), Some(<<"0","0","0","1">>)),
                     Ancestor("usb", Some(<<"1","d","6","b">>), Some(<<"z">>))>>]

\* The directories a device node can have above it in sysfs: one outside the
\* USB subsystem that has id attributes all the same, and USB ones whose
\* idVendor is missing, malformed or readable and whose idProduct is
\* readable, malformed or missing.
AncestorKinds ==
    {Ancestor("serial-base", Some(<<"d","e","a","d">>), Some(<<"b","e","e","f">>)),
     Ancestor("usb", None, Some(<<"0","0","0","2">>)),
     Ancestor("usb", Some(<<"x","y">>), Some(<<"0","0","0","1">>)),
     Ancestor("usb", Some(<<"0","6","9","4","\n">>), Some(<<"0","0","0","9","\n">>)),
     Ancestor("usb", Some(<<"1","d","6","b">>), Some(<<"z">>)),
     Ancestor("usb", Some(<<" ","0","B","D","A","\n">>), None)}

\* The longest chain of ancestors looked at.
MaxAncestors == 3

\* The devices that have up to MaxAncestors such directories above them.
ChainDevices ==
    {[device_subsystem |-> IF chain = <<>> THEN None ELSE Some(chain[1].subsystem),
      ancestors |-> chain] :
        chain \in UNION {[1..n -> AncestorKinds] : n \in 0..MaxAncestors}}

\* A walk up the chain that stops at the nearest ancestor of any subsystem.
parent_with_any_subsystem(device, from, subsystem) ==
    IF from < Len(device.ancestors) THEN from + 1 ELSE 0

\* Device::parent_with_subsystem("usb") from position `from` of the ancestor
\* chain (0 is the device itself): the index of the nearest ancestor above it
\* whose subsystem is "usb", or 0 when there is none.
parent_with_subsystem(device, from, subsystem) ==
    LET above == {i \in (from + 1)..Len(device.ancestors) :
                     device.ancestors[i].subsystem = subsystem}
    IN  IF above = {} THEN 0 ELSE CHOOSE i \in above : \A j \in above : i <= j

\* The while loop of UsbDeviceId::find_for_device from ancestor `current`.
RECURSIVE FindFromAncestor(_, _)
FindFromAncestor(device, current) ==
    IF current = 0
    THEN [vendor_id |-> -1, product_id |-> -1]
    ELSE LET attrs == device.ancestors[current]
             vendor_id == read_hex_attr(attrs.idVendor)
             product_id == read_hex_attr(attrs.idProduct)
         IN  IF vendor_id.ok
             THEN [vendor_id |-> vendor_id.value,
                   product_id |-> IF product_id.ok THEN product_id.value ELSE -1]
             ELSE FindFromAncestor(device, parent_with_subsystem(device, current, "usb"))

\* A search that looks at the nearest USB ancestor and no further.
find_for_device_first_usb(device) ==
    LET current == parent_with_subsystem(device, 0, "usb")
        vendor_id == read_hex_attr(device.ancestors[current].idVendor)
        product_id == read_hex_attr(device.ancestors[current].idProduct)
    IN  IF current = 0 THEN [vendor_id |-> -1, product_id |-> -1]
        ELSE [vendor_id |-> IF vendor_id.ok THEN vendor_id.value ELSE -1,
              product_id |-> IF vendor_id.ok /\ product_id.ok THEN product_id.value
                             ELSE -1]

\* UsbDeviceId::find_for_device
find_for_device(device) ==
    FindFromAncestor(device, parent_with_subsystem(device, 0, "usb"))

\* A name for every path: the empty name where the path ends in no name.
file_name_or_empty(devnode_path) ==
    IF devnode_path = <<>> \/ devnode_path[Len(devnode_path)] = ".."
    THEN <<"">>
    ELSE <<devnode_path[Len(devnode_path)]>>

\* A file name that is no valid UTF-8: the bytes of "tty" and the byte 0xFF.
NonUtf8Name == "tty_0xFF"

\* OsStr::to_str: None for a name that is not valid UTF-8.
to_str(name) == IF name = NonUtf8Name THEN None ELSE Some(name)

\* A devnode path is the sequence of its components; "/" has none.
\* Path::file_name(): the last component, None for "/" and for a path that
\* ends in "..".
file_name(devnode_path) ==
    IF devnode_path = <<>> \/ devnode_path[Len(devnode_path)] = ".."
    THEN None
    ELSE Some(devnode_path[Len(devnode_path)])

DeviceNodeEvent(event_type, devnode_path, device) ==
    [event_type |-> event_type, device_type |-> "DeviceNode",
     devnode_path |-> devnode_path, device |-> device]

\* The events the watcher's stream can carry.
Events ==
    {DeviceNodeEvent("Add", <<"dev", "ttyS0">>, UartDevice),
     DeviceNodeEvent("Remove", <<"dev", "ttyS0">>, UartDevice),
     DeviceNodeEvent("Add", <<"dev", "ttyACM0">>, UsbDevice),
     DeviceNodeEvent("Remove", <<"dev", "ttyACM0">>, UsbDevice),
     DeviceNodeEvent("Add", <<"dev", "alien">>, VirtualDevice),
     DeviceNodeEvent("Add", <<>>, VirtualDevice),
     [event_type |-> "Add", device_type |-> "Other", devnode_path |-> <<>>,
      device |-> VirtualDevice]}

\* The device numbers fs::metadata reports for the nodes of /dev.
rdev(name) ==
    CASE name = "ttyS0"   -> [major |-> 4, minor |-> 80]
      [] name = "ttyACM0" -> [major |-> 166, minor |-> 0]
      [] OTHER            -> [major |-> 4, minor |-> 96]

\* The port names callers ask for.
PortNames == {"ttyS0", "ttyACM0", "alien"}

-----------------------------------------------------------------------------
(* SerialManager state                                                     *)

\* The listener binders (SpIBinder), in the order the BTreeMap iterates them.
ListenerOrder == <<"listener1", "listener2">>

Listeners == {ListenerOrder[i] : i \in 1..Len(ListenerOrder)}

\* rustutils::users
AID_ROOT == 0

AID_SYSTEM == 1000

\* The calling uids: root, system, and the shell user.
Uids == {AID_ROOT, AID_SYSTEM, 2000}

\* How many of the last events `history` keeps.
HistoryLen == 1

\* The count of event starts at which registered_for stops counting.
MaxRegisteredFor == 2

\* An insert that starts the map afresh.
MapPutAlone(m, k, v) == [x \in {k} |-> v]

\* An insert that keeps the value a key already has.
MapPutIfAbsent(m, k, v) == [x \in (DOMAIN m) \cup {k} |-> IF x \in DOMAIN m THEN m[x] ELSE v]

MapPut(m, k, v) == [x \in (DOMAIN m) \cup {k} |-> IF x = k THEN v ELSE m[x]]

\* A removal that takes every entry with it.
MapRemoveAll(m, k) == [x \in (DOMAIN m) \ ((DOMAIN m) \cup {k}) |-> m[x]]

\* A removal that leaves the entry of the key where it is.
MapRemoveNothing(m, k) == [x \in (DOMAIN m) \cup ((DOMAIN m) \cap {k}) |-> m[x]]

MapRemove(m, k) == [x \in (DOMAIN m) \ {k} |-> m[x]]

EmptyMap == [x \in {} |-> x]

\* The identities a DeathRecipient object can have: one more than there are
\* entries to hold one, so that a new object always finds one that is free.
RecipientIds == 1..(Cardinality(Listeners) + 1)

\* DeathRecipient::new: a new object, distinct from every DeathRecipient that
\* an entry of the map still holds (the identity of a dropped one is free again).
NewDeathRecipient(ls) ==
    LET held == {ls[h].death_recipient : h \in DOMAIN ls}
        free == RecipientIds \ held
    IN  CHOOSE id \in free : \A other \in free : id <= other

NoInfo ==
    [name |-> "", subsystem |-> "", driverType |-> <<>>, vendorId |-> 0, productId |-> 0]

NoDevice == [device_subsystem |-> None, ancestors |-> <<>>]

NoPending ==
    [event_type |-> "none", kind |-> "none", info |-> NoInfo, device |-> NoDevice]

NoFd == [valid |-> FALSE, path |-> <<>>, access_mode |-> 0]

Returned(op, status, message, errno, ports, fd) ==
    [op |-> op, status |-> status, message |-> message, errno |-> errno,
     ports |-> ports, fd |-> fd]

Status(op, status, message) == Returned(op, status, message, 0, {}, NoFd)

\* Status::new_exception_str(SERVICE_SPECIFIC, "<call> failed, errno=<errno>")
Failed(op, call, errno) == Returned(op, "SERVICE_SPECIFIC", call, errno, {}, NoFd)

\* The step taken was not the return of an ISerialManager call.
NoReply == Status("none", "none", "")

NoCall == [active |-> FALSE, port_name |-> "", flags |-> 0, exclusive |-> FALSE]

NoOpen ==
    [opened |-> FALSE, path |-> <<>>, access_mode |-> 0, flags |-> 0, errno |-> 0,
     ioctl |-> "none", ioctl_errno |-> 0, closed |-> FALSE]

\* SerialManager::new: both maps empty, the event task started.
\* The Mutex of listeners when nobody holds it or waits for it. While the
\* event task holds it for a fan-out, began_with is the set of binders that
\* were registered when it was locked, and called the binders called so far.
NoLock == [holder |-> "none", began_with |-> {}, called |-> <<>>, waiting |-> {}]

\* A listeners map that can be had without its lock.
ListenersLockFreeAlways == TRUE

\* Mutex::lock returns only when no other thread holds the guard.
ListenersLockFree == listeners_lock.holder = "none"

\* The listener of the client that keeps a list of the ports.
ClientListener == ListenerOrder[1]

\* A client that has not asked for the ports yet.
NoClient == [synced |-> FALSE, ports |-> {}]

\* The client's list after a callback: onSerialPortConnected(info) puts info
\* in the place of what the list had under info.name, and
\* onSerialPortDisconnected(info) takes that name off the list.
PortsAfter(ports, call) ==
    LET others == {port \in ports : port.name # call.info.name}
    IN  IF call.kind = "onSerialPortConnected" THEN others \cup {call.info} ELSE others

\* A stream that can carry any event next and end at any time: events holds
\* nothing, and nothing is counted.
AnyStream == [finite |-> FALSE, events |-> <<>>, taken |-> 0, completed |-> 0]

\* stream.next() yields ev: the first event of a finite stream that was not
\* taken yet.
StreamYields(ev) ==
    \/ ~stream.finite
    \/ /\ stream.taken < Len(stream.events)
       /\ stream.events[stream.taken + 1] = ev

\* stream.next() yields None.
StreamIsOver == ~stream.finite \/ stream.taken = Len(stream.events)

\* The stream with `taken` more of its events taken by run(), and `completed`
\* more of them handled to the end of handle_device_event.
StreamAfter(taken, completed) ==
    IF ~stream.finite THEN stream
    ELSE [stream EXCEPT !.taken = @ + taken, !.completed = @ + completed]

\* SerialManager::new and DeviceEventsHandler::start_new, whatever the stream.
ManagerStart ==
    /\ serial_ports = EmptyMap
    /\ listeners = EmptyMap
    /\ death_links = {}
    /\ remote = [h \in Listeners |-> "alive"]
    /\ handler_pc = "idle"
    /\ pending = NoPending
    /\ history = <<>>
    /\ notified = <<>>
    /\ registered_for = EmptyMap
    /\ rpc_result = NoReply
    /\ open_call = NoCall
    /\ open_log = NoOpen
    /\ lock_log = <<>>
    /\ listeners_lock = NoLock
    /\ client = NoClient

ManagerInit == ManagerStart /\ stream = AnyStream

Init == FinderInit /\ ManagerInit

-----------------------------------------------------------------------------
(* DeviceEventsHandler and the DeviceEventCallback of SerialManager        *)

\* A handler that has no name for the subsystem of a device without one.
subsystem_or_empty(device) ==
    IF device.device_subsystem = None THEN "" ELSE device.device_subsystem[1]

\* device.device().and_then(|d| d.subsystem()).unwrap_or("virtual")
subsystem_or_virtual(device) ==
    IF device.device_subsystem = None THEN "virtual" ELSE device.device_subsystem[1]

\* A finder that answers every failed lookup with a driver type.
find_or_default(stat_ok, found) ==
    IF stat_ok /\ found.result.ok THEN found.result ELSE Ok(<<"s", "e", "r", "i", "a", "l">>)

\* DriverTypeFinder::find: get_devnum(devnode_path)?, then find_by_devnum, of
\* which found is the record.
find(stat_ok, found) ==
    IF ~stat_ok THEN Err("metadata") ELSE found.result

\* handle_device_event up to the registry update of the callback: what the
\* event comes to, the name and record involved, and the find call made.
\* stat_ok says whether fs::metadata(devnode_path) succeeds.
Classify(ev, stat_ok) ==
    LET classified(name_opt, name, found, usb_device_id) ==
            LET info == [name |-> name,
                         subsystem |-> subsystem_or_virtual(ev.device),
                         driverType |-> find(stat_ok, found).value,
                         vendorId |-> usb_device_id.vendor_id,
                         productId |-> usb_device_id.product_id]
                result(outcome, record, find_called) ==
                    [outcome |-> outcome, name |-> name, info |-> record,
                     find_called |-> find_called, find |-> found]
            IN  IF ev.device_type # "DeviceNode"
                THEN result("unexpected_device_type", NoInfo, FALSE)
                ELSE IF name_opt = None THEN result("no_device_name", NoInfo, FALSE)
                \* name.to_str().expect(..): the task panics
                ELSE IF to_str(name) = None THEN result("panicked", NoInfo, FALSE)
                ELSE IF ev.event_type = "Add"
                THEN IF ~find(stat_ok, found).ok
                     THEN result("unsupported", NoInfo, stat_ok)
                     ELSE result("added", info, stat_ok)
                ELSE IF name \in DOMAIN serial_ports
                     THEN result("removed", serial_ports[name], FALSE)
                     ELSE result("not_registered", NoInfo, FALSE)
        named(name_opt, name) ==
            classified(name_opt, name,
                       FindLog(drivers_cache, drivers_file, rdev(name).major,
                               rdev(name).minor),
                       find_for_device(ev.device))
        of_path(name_opt) == named(name_opt, IF name_opt = None THEN "" ELSE name_opt[1])
    IN  of_path(file_name(ev.devnode_path))

\* A handler that has the finder look up the device of every event.
FindCallOfAnyEvent(c) == c.find

\* The find_by_devnum call handle_device_event came to, if it came to one.
FindCallOf(c) == IF c.find_called THEN c.find ELSE NoFind

\* The fs::metadata(devnode_path) calls of the event: get_devnum makes one
\* whenever the Add arm calls find, before anything is looked up.
MetadataQueriesOf(c) == IF c.outcome \in {"unsupported", "added"} THEN 1 ELSE 0

\* A callback that drops the entry of a name whose Add it could not classify.
RegistryAfterDroppingUnsupported(c) ==
    CASE c.outcome = "added"       -> MapPut(serial_ports, c.info.name, c.info)
      [] c.outcome = "removed"     -> MapRemove(serial_ports, c.name)
      [] c.outcome = "unsupported" -> MapRemove(serial_ports, c.name)
      [] OTHER                     -> serial_ports

\* The registry as the callback of the event leaves it: on_device_added
\* inserts, on_device_removed removes, and an event that comes to no callback
\* does not touch it.
RegistryAfter(c) ==
    CASE c.outcome = "added"   -> MapPut(serial_ports, c.info.name, c.info)
      [] c.outcome = "removed" -> MapRemove(serial_ports, c.name)
      [] OTHER                 -> serial_ports

\* The critical sections of handle_device_event up to the registry update, in
\* order: the Add arm calls find inside a block that holds the finder's lock
\* and ends before anything else is done; on_device_added and
\* on_device_removed lock serial_ports for the one statement that inserts or
\* removes.
HandlerSections(c) ==
    (IF c.outcome \in {"unsupported", "added"} THEN <<{"driver_type_finder"}>> ELSE <<>>)
    \o (IF c.outcome \in {"added", "removed", "not_registered"}
        THEN <<{"serial_ports"}>> ELSE <<>>)

\* A handler whose Remove arm tells no listener.
ComesToFanOutForAddsOnly(c) == c.outcome = "added"

\* The events whose callback comes to its listener loop: on_device_added
\* always does, on_device_removed unless the name was not in the registry.
ComesToFanOut(c) == c.outcome \in {"added", "removed"}

\* The history with one more event that was handled to its end.
Handled(h, event_type, name, outcome, calls) ==
    LET record == [event_type |-> event_type, name |-> name, outcome |-> outcome,
                   calls |-> calls]
    IN  Append(IF Len(h) < HistoryLen THEN h ELSE SubSeq(h, 2, Len(h)), record)

\* An event task that takes the next event while a fan-out is still to run.
AwaitsNextEventDuringFanOut == handler_pc \in {"idle", "fanout"}

\* run() is at stream.next().await: the event before, if any, was handled to
\* the end of handle_device_event.
AwaitsNextEvent == handler_pc = "idle"

\* The event task takes the next event of the stream and handles it up to and
\* including the registry update (serial_ports.lock().insert / remove).
HandleDeviceEvent(ev, stat_ok) ==
    /\ AwaitsNextEvent
    /\ StreamYields(ev)
    /\ \E c \in {Classify(ev, stat_ok)} :
           /\ find_log' = [FindCallOf(c) EXCEPT !.metadata_queries = MetadataQueriesOf(c)]
           /\ drivers_cache' = IF c.find_called THEN c.find.cache_after ELSE drivers_cache
           /\ serial_ports' = RegistryAfter(c)
           /\ lock_log' = HandlerSections(c)
           /\ stream' = StreamAfter(1, IF c.outcome \in {"added", "removed", "panicked"}
                                       THEN 0 ELSE 1)
           /\ UNCHANGED <<listeners_lock, client>>
           /\ handler_pc' = IF c.outcome = "panicked" THEN "panicked"
                            ELSE IF ComesToFanOut(c) THEN "fanout" ELSE "idle"
           /\ pending' =
                 CASE c.outcome = "added" ->
                          [event_type |-> ev.event_type, kind |-> "onSerialPortConnected",
                           info |-> c.info, device |-> ev.device]
                   [] c.outcome = "removed" ->
                          [event_type |-> ev.event_type, kind |-> "onSerialPortDisconnected",
                           info |-> c.info, device |-> ev.device]
                   [] OTHER -> NoPending
           \* an event that comes to no callback is at its end here
           /\ history' = IF c.outcome \in {"added", "removed", "panicked"} THEN history
                         ELSE Handled(history, ev.event_type, c.name, c.outcome, <<>>)
    /\ registered_for' =
          [h \in DOMAIN registered_for |->
              IF registered_for[h] < MaxRegisteredFor THEN registered_for[h] + 1
              ELSE MaxRegisteredFor]
    /\ notified' = <<>>
    /\ rpc_result' = NoReply
    /\ open_log' = NoOpen
    /\ UNCHANGED <<driver_type_finder, drivers_file, listeners, death_links, remote,
                   open_call>>

\* A fan-out that goes over the registered binders twice.
ListenerKeysTwice(ls) ==
    LET keep(h) == h \in DOMAIN ls
    IN  SelectSeq(ListenerOrder, keep) \o SelectSeq(ListenerOrder, keep)

\* A fan-out that ends at the first listener whose call fails.
ListenerKeysUntilFailure(ls) ==
    LET keep(h) == h \in DOMAIN ls
        keys == SelectSeq(ListenerOrder, keep)
        failing == {i \in DOMAIN keys : remote[keys[i]] # "alive"}
    IN  IF failing = {} THEN keys
        ELSE SubSeq(keys, 1, CHOOSE i \in failing : \A j \in failing : i <= j)

\* The registered binders in BTreeMap order.
ListenerKeys(ls) ==
    LET keep(h) == h \in DOMAIN ls IN SelectSeq(ListenerOrder, keep)

\* One listener call of the fan-out: a call to a listener whose process is
\* gone fails (the error is logged and the loop goes on).
ListenerCall(h, p) ==
    [listener |-> listeners[h].listener, kind |-> p.kind, info |-> p.info,
     ok |-> remote[listeners[h].listener] = "alive"]

\* A step that makes no find call, returns from no ISerialManager call and
\* opens no file.
NoLogs ==
    /\ find_log' = NoFind
    /\ rpc_result' = NoReply
    /\ open_log' = NoOpen
    /\ notified' = <<>>
    /\ lock_log' = <<>>

\* A fan-out loop that runs inside the statement that locked serial_ports.
FanOutSectionsInsideRegistry == <<{"serial_ports", "listeners"}>>

\* The critical section of the fan-out: the guard of listeners.lock() lives
\* as long as the for loop over its values(); the guard of serial_ports was
\* dropped at the end of the statement before the loop.
FanOutSections == <<{"listeners"}>>

\* The client after a step that leaves the listeners ls and makes the listener
\* calls `calls`: a client that is no longer registered, or whose callback did
\* not get through, keeps no list.
ClientAfter(ls, calls) ==
    LET mine == {i \in DOMAIN calls : calls[i].listener = ClientListener}
    IN  IF ~client.synced THEN client
        ELSE IF ClientListener \notin DOMAIN ls THEN NoClient
        ELSE IF mine = {} THEN client
        ELSE IF \E i \in mine : ~calls[i].ok THEN NoClient
        ELSE [client EXCEPT !.ports = PortsAfter(@, calls[CHOOSE i \in mine : TRUE])]

\* The fan-out loop of on_device_added / on_device_removed, under the
\* listeners lock from its first call to its last.
FanOut ==
    /\ handler_pc = "fanout"
    /\ ListenersLockFree
    /\ LET keys == ListenerKeys(listeners)
           calls == [i \in 1..Len(keys) |-> ListenerCall(keys[i], pending)]
       IN  /\ notified' = calls
           /\ client' = ClientAfter(listeners, calls)
           /\ history' = Handled(history, pending.event_type, pending.info.name,
                                 IF pending.kind = "onSerialPortConnected" THEN "added"
                                 ELSE "removed",
                                 keys)
    /\ handler_pc' = "idle"
    /\ pending' = NoPending
    /\ find_log' = NoFind
    /\ rpc_result' = NoReply
    /\ open_log' = NoOpen
    /\ lock_log' = FanOutSections
    /\ UNCHANGED listeners_lock
    /\ UNCHANGED driver_type_finder
    /\ UNCHANGED <<drivers_cache, drivers_file, serial_ports, listeners, death_links,
                   remote, registered_for, open_call>>
    /\ stream' = StreamAfter(0, 1)

\* The place of a binder in the order of the keys of the BTreeMap.
OrderOf(h) == CHOOSE i \in DOMAIN ListenerOrder : ListenerOrder[i] = h

\* The fan-out step by step. The event task comes to
\* `for listener_entry in self.listeners.lock().unwrap().values()`: lock()
\* returns when the Mutex is free, and the guard lives as long as the loop.
FanOutLocks ==
    /\ handler_pc = "fanout"
    /\ ListenersLockFree
    /\ handler_pc' = "fanout_loop"
    /\ listeners_lock' = [listeners_lock EXCEPT !.holder = "event_task",
                                                !.began_with = DOMAIN listeners,
                                                !.called = <<>>]
    /\ UNCHANGED client
    /\ NoLogs
    /\ UNCHANGED driver_type_finder
    /\ UNCHANGED <<drivers_cache, drivers_file, serial_ports, listeners, death_links,
                   remote, pending, history, registered_for, open_call>>
    /\ UNCHANGED stream

\* The binders values() has still to yield: the keys of the map after the key
\* it yielded last.
FanOutRemaining ==
    LET called == listeners_lock.called
        after(h) == called = <<>> \/ OrderOf(h) > OrderOf(called[Len(called)])
    IN  SelectSeq(ListenerKeys(listeners), after)

\* One pass of the loop: the call to the next listener.
FanOutCalls ==
    /\ handler_pc = "fanout_loop"
    /\ FanOutRemaining # <<>>
    /\ notified' = <<ListenerCall(FanOutRemaining[1], pending)>>
    /\ listeners_lock' = [listeners_lock EXCEPT !.called = Append(@, FanOutRemaining[1])]
    /\ client' = ClientAfter(listeners, <<ListenerCall(FanOutRemaining[1], pending)>>)
    /\ find_log' = NoFind
    /\ rpc_result' = NoReply
    /\ open_log' = NoOpen
    /\ lock_log' = FanOutSections
    /\ UNCHANGED driver_type_finder
    /\ UNCHANGED <<drivers_cache, drivers_file, serial_ports, listeners, death_links,
                   remote, handler_pc, pending, history, registered_for, open_call>>
    /\ UNCHANGED stream

\* values() yields no more: the loop ends, the guard is dropped, and the
\* callback and handle_device_event return.
FanOutUnlocks ==
    /\ handler_pc = "fanout_loop"
    /\ FanOutRemaining = <<>>
    /\ handler_pc' = "idle"
    /\ listeners_lock' = [listeners_lock EXCEPT !.holder = "none", !.began_with = {},
                                                !.called = <<>>]
    /\ history' = Handled(history, pending.event_type, pending.info.name,
                          IF pending.kind = "onSerialPortConnected" THEN "added"
                          ELSE "removed",
                          listeners_lock.called)
    /\ pending' = NoPending
    /\ UNCHANGED client
    /\ NoLogs
    /\ UNCHANGED driver_type_finder
    /\ UNCHANGED <<drivers_cache, drivers_file, serial_ports, listeners, death_links,
                   remote, registered_for, open_call>>
    /\ stream' = StreamAfter(0, 1)

\* How many calls are let wait for the listeners lock at a time.
MaxWaiting == 2

\* A binder thread in registerSerialPortListener or
\* unregisterSerialPortListener for listener, past check_permissions, comes
\* to self.listeners.lock().
ReachesListenersLock(op, listener) ==
    /\ <<op, listener>> \notin listeners_lock.waiting
    /\ Cardinality(listeners_lock.waiting) < MaxWaiting
    /\ listeners_lock' = [listeners_lock EXCEPT !.waiting = @ \cup {<<op, listener>>}]
    /\ UNCHANGED client
    /\ NoLogs
    /\ UNCHANGED driver_type_finder
    /\ UNCHANGED <<drivers_cache, drivers_file, serial_ports, listeners, death_links,
                   remote, handler_pc, pending, history, registered_for, open_call>>
    /\ UNCHANGED stream

\* stream.next() returns None: run() returns.
StreamEnds ==
    /\ handler_pc = "idle"
    /\ StreamIsOver
    /\ handler_pc' = "done"
    /\ NoLogs
    /\ UNCHANGED <<listeners_lock, client>>
    /\ UNCHANGED driver_type_finder
    /\ UNCHANGED <<drivers_cache, drivers_file, serial_ports, listeners, death_links,
                   remote, pending, history, registered_for, open_call>>
    /\ UNCHANGED stream

-----------------------------------------------------------------------------
(* ISerialManagerAsyncServer for SerialManager                             *)

\* A permission check that lets every caller through.
check_permissions_any(calling_uid) == calling_uid = calling_uid

\* check_permissions: only system server, or root while testing.
check_permissions(calling_uid) ==
    ~(calling_uid # AID_SYSTEM /\ calling_uid # AID_ROOT)

SecurityError(op) == Status(op, "SECURITY", "")

\* A copy of the map that misses the record of one of its names.
values_but_one(m) ==
    IF DOMAIN m = {} THEN {}
    ELSE {m[n] : n \in (DOMAIN m) \ {CHOOSE k \in DOMAIN m : TRUE}}

\* HashMap::values().cloned().collect()
values(m) == {m[n] : n \in DOMAIN m}

\* getSerialPorts: the values of the map, cloned under its lock.
getSerialPorts(calling_uid) ==
    /\ rpc_result' = Returned("getSerialPorts", "ok", "", 0, values(serial_ports), NoFd)
    /\ find_log' = NoFind
    /\ open_log' = NoOpen
    /\ notified' = <<>>
    /\ lock_log' = <<{"serial_ports"}>>
    /\ UNCHANGED <<listeners_lock, client>>
    /\ UNCHANGED driver_type_finder
    /\ UNCHANGED <<drivers_cache, drivers_file, serial_ports, listeners, death_links,
                   remote, handler_pc, pending, history, registered_for, open_call>>
    /\ UNCHANGED stream

\* getSerialPorts called by the client that holds ClientListener, after it
\* registered it: the client's list is the snapshot returned.
ClientGetsSerialPorts ==
    /\ ClientListener \in DOMAIN listeners
    /\ remote[ClientListener] = "alive"
    /\ rpc_result' = Returned("getSerialPorts", "ok", "", 0, values(serial_ports), NoFd)
    /\ client' = [synced |-> TRUE, ports |-> values(serial_ports)]
    /\ find_log' = NoFind
    /\ open_log' = NoOpen
    /\ notified' = <<>>
    /\ lock_log' = <<{"serial_ports"}>>
    /\ UNCHANGED driver_type_finder
    /\ UNCHANGED <<drivers_cache, drivers_file, serial_ports, listeners, death_links,
                   remote, handler_pc, pending, history, registered_for, open_call,
                   listeners_lock>>
    /\ UNCHANGED stream

\* binder::Interface::dump: the number of ports and the five lines of each,
\* written under the serial_ports lock; a write that fails ends the dump with
\* PERMISSION_DENIED.
dump(write_ok) ==
    /\ rpc_result' =
          IF write_ok
          THEN Returned("dump", "ok", "", 0, values(serial_ports), NoFd)
          ELSE Status("dump", "PERMISSION_DENIED", "")
    /\ find_log' = NoFind
    /\ open_log' = NoOpen
    /\ notified' = <<>>
    /\ lock_log' = <<{"serial_ports"}>>
    /\ UNCHANGED <<listeners_lock, client>>
    /\ UNCHANGED driver_type_finder
    /\ UNCHANGED <<drivers_cache, drivers_file, serial_ports, listeners, death_links,
                   remote, handler_pc, pending, history, registered_for, open_call>>
    /\ UNCHANGED stream

\* BTreeMap::insert(binder, entry): the entry stored afterwards and the entry
\* returned (None when the key was vacant).
BTreeMapInsert(m, k, v) ==
    [map |-> MapPut(m, k, v), old |-> IF k \in DOMAIN m THEN Some(m[k]) ELSE None]

\* registerSerialPortListener
registerSerialPortListener(listener, calling_uid) ==
    /\ check_permissions(calling_uid) => ListenersLockFree
    /\ listeners_lock' =
          [listeners_lock EXCEPT
              !.waiting = @ \ {<<"registerSerialPortListener", listener>>}]
    /\ IF ~check_permissions(calling_uid)
       THEN /\ rpc_result' = SecurityError("registerSerialPortListener")
            /\ UNCHANGED <<listeners, death_links, registered_for>>
       ELSE LET entry == [listener |-> listener,
                          death_recipient |-> NewDeathRecipient(listeners)]
                ins == BTreeMapInsert(listeners, listener, entry)
            IN  /\ listeners' = ins.map
                /\ rpc_result' =
                      IF ins.old # None
                      THEN Status("registerSerialPortListener", "SERVICE_SPECIFIC",
                                  "Duplicate listener")
                      ELSE Status("registerSerialPortListener", "ok", "")
                \* a replaced entry is dropped, and its DeathRecipient with it;
                \* the new DeathRecipient is linked to no binder
                /\ death_links' =
                      IF ins.old = None THEN death_links
                      ELSE {l \in death_links : l[2] # ins.old[1].death_recipient}
                /\ registered_for' =
                      IF ins.old = None THEN MapPut(registered_for, listener, 0)
                      ELSE registered_for
    /\ find_log' = NoFind
    /\ open_log' = NoOpen
    /\ notified' = <<>>
    /\ lock_log' = IF check_permissions(calling_uid) THEN <<{"listeners"}>> ELSE <<>>
    /\ client' = ClientAfter(listeners', <<>>)
    /\ UNCHANGED driver_type_finder
    /\ UNCHANGED <<drivers_cache, drivers_file, serial_ports, remote, handler_pc, pending,
                   history, open_call>>
    /\ UNCHANGED stream

\* unregisterSerialPortListener
unregisterSerialPortListener(listener, calling_uid) ==
    /\ check_permissions(calling_uid) => ListenersLockFree
    /\ listeners_lock' =
          [listeners_lock EXCEPT
              !.waiting = @ \ {<<"unregisterSerialPortListener", listener>>}]
    /\ IF ~check_permissions(calling_uid)
       THEN /\ rpc_result' = SecurityError("unregisterSerialPortListener")
            /\ UNCHANGED <<listeners, death_links, registered_for>>
       ELSE IF listener \in DOMAIN listeners
       THEN /\ listeners' = MapRemove(listeners, listener)
            /\ death_links' =
                  {l \in death_links : l[2] # listeners[listener].death_recipient}
            /\ registered_for' = MapRemove(registered_for, listener)
            /\ rpc_result' = Status("unregisterSerialPortListener", "ok", "")
       ELSE /\ rpc_result' = Status("unregisterSerialPortListener", "SERVICE_SPECIFIC",
                                    "Listener not found")
            /\ UNCHANGED <<listeners, death_links, registered_for>>
    /\ find_log' = NoFind
    /\ open_log' = NoOpen
    /\ notified' = <<>>
    /\ lock_log' = IF check_permissions(calling_uid) THEN <<{"listeners"}>> ELSE <<>>
    /\ client' = ClientAfter(listeners', <<>>)
    /\ UNCHANGED driver_type_finder
    /\ UNCHANGED <<drivers_cache, drivers_file, serial_ports, remote, handler_pc, pending,
                   history, open_call>>
    /\ UNCHANGED stream

\* nix::libc
O_RDONLY == 0

O_WRONLY == 1

O_RDWR == 2

O_ACCMODE == 3

O_NOCTTY == 256

O_NONBLOCK == 2048

O_CLOEXEC == 524288

EINVAL == 22

RECURSIVE BitAnd(_, _)
BitAnd(a, b) ==
    IF a = 0 \/ b = 0 THEN 0
    ELSE (a % 2) * (b % 2) + 2 * BitAnd(a \div 2, b \div 2)

BitOr(a, b) == a + b - BitAnd(a, b)

\* The flags values callers pass.
OpenFlags == {O_RDONLY, O_WRONLY, O_RDWR, BitOr(O_RDWR, O_NONBLOCK)}

\* The errno of open() and of ioctl() (0: success).
OpenErrnos == {0, 2}

IoctlErrnos == {0, 25}

\* An existence check that finds every name.
contains_key_any(m, k) == k = k

\* HashMap::contains_key
contains_key(m, k) == k \in DOMAIN m

\* requestOpen up to its existence check (lines 161-167).
requestOpenCheck(port_name, flags, exclusive, calling_uid) ==
    /\ ~open_call.active
    /\ IF ~check_permissions(calling_uid)
       THEN /\ rpc_result' = SecurityError("requestOpen")
            /\ UNCHANGED open_call
       ELSE IF ~contains_key(serial_ports, port_name)
       THEN /\ rpc_result' = Status("requestOpen", "ILLEGAL_ARGUMENT", "does not exist")
            /\ UNCHANGED open_call
       ELSE /\ open_call' = [active |-> TRUE, port_name |-> port_name, flags |-> flags,
                             exclusive |-> exclusive]
            /\ rpc_result' = NoReply
    /\ find_log' = NoFind
    /\ open_log' = NoOpen
    /\ notified' = <<>>
    \* the guard of serial_ports is a temporary of the if condition
    /\ lock_log' = IF check_permissions(calling_uid) THEN <<{"serial_ports"}>> ELSE <<>>
    /\ UNCHANGED <<listeners_lock, client>>
    /\ UNCHANGED driver_type_finder
    /\ UNCHANGED <<drivers_cache, drivers_file, serial_ports, listeners, death_links,
                   remote, handler_pc, pending, history, registered_for>>
    /\ UNCHANGED stream

\* An OpenOptions that passes the caller's flags on as they are.
OpenOptionsOfPlain(flags) ==
    [read |-> BitAnd(flags, BitOr(O_RDONLY, O_RDWR)) # 0,
     write |-> BitAnd(flags, BitOr(O_WRONLY, O_RDWR)) # 0,
     custom_flags |-> flags]

\* OpenOptions, as requestOpen sets it up from flags.
OpenOptionsOf(flags) ==
    [read |-> BitAnd(flags, BitOr(O_RDONLY, O_RDWR)) # 0,
     write |-> BitAnd(flags, BitOr(O_WRONLY, O_RDWR)) # 0,
     custom_flags |-> BitOr(flags, O_NOCTTY)]

\* OpenOptions::get_access_mode: read and write both unset is EINVAL, found
\* before any system call.
get_access_mode(opts) ==
    CASE opts.read /\ ~opts.write  -> [ok |-> TRUE, mode |-> O_RDONLY]
      [] ~opts.read /\ opts.write  -> [ok |-> TRUE, mode |-> O_WRONLY]
      [] opts.read /\ opts.write   -> [ok |-> TRUE, mode |-> O_RDWR]
      [] OTHER                     -> [ok |-> FALSE, mode |-> EINVAL]

\* The flags OpenOptions::open passes to open(2):
\* O_CLOEXEC | access_mode | (custom_flags & !O_ACCMODE).
SyscallFlags(opts, access_mode) ==
    BitOr(BitOr(O_CLOEXEC, access_mode),
          opts.custom_flags - BitAnd(opts.custom_flags, O_ACCMODE))

\* An exclusivity request that sets where it should clear, and clears where
\* it should set.
ExclusivityRequestSwapped(exclusive) == IF exclusive THEN "TIOCNXCL" ELSE "TIOCEXCL"

\* raw::tiocexcl when exclusive, raw::tiocnxcl otherwise (lines 180-184).
ExclusivityRequest(exclusive) == IF exclusive THEN "TIOCEXCL" ELSE "TIOCNXCL"

\* A path that is only made for a port the registry still holds.
device_path_if_registered(port_name) ==
    IF port_name \in DOMAIN serial_ports THEN <<"dev", port_name>> ELSE <<>>

\* Path::new("/dev").join(port_name)
device_path(port_name) == <<"dev", port_name>>

\* requestOpen from the open to its return (lines 168-200); open_errno and
\* ioctl_errno are what the system answers.
requestOpenOpen(open_errno, ioctl_errno) ==
    /\ open_call.active
    /\ open_call' = NoCall
    /\ LET path == device_path(open_call.port_name)
           opts == OpenOptionsOf(open_call.flags)
           access == get_access_mode(opts)
           request == ExclusivityRequest(open_call.exclusive)
           opened(errno, ioctl, ioctl_result) ==
               [opened |-> TRUE, path |-> path, access_mode |-> access.mode,
                flags |-> SyscallFlags(opts, access.mode), errno |-> errno,
                ioctl |-> ioctl, ioctl_errno |-> ioctl_result,
                closed |-> ioctl_result # 0]
       IN  IF ~access.ok
           THEN /\ rpc_result' = Failed("requestOpen", "open() failed", access.mode)
                /\ open_log' = NoOpen
           ELSE IF open_errno # 0
           THEN /\ rpc_result' = Failed("requestOpen", "open() failed", open_errno)
                /\ open_log' = opened(open_errno, "none", 0)
           ELSE IF ioctl_errno # 0
           THEN /\ rpc_result' = Failed("requestOpen", "ioctl() failed", ioctl_errno)
                /\ open_log' = opened(0, request, ioctl_errno)
           ELSE /\ rpc_result' = Returned("requestOpen", "ok", "", 0, {},
                                          [valid |-> TRUE, path |-> path,
                                           access_mode |-> access.mode])
                /\ open_log' = opened(0, request, 0)
    /\ find_log' = NoFind
    /\ notified' = <<>>
    /\ lock_log' = <<>>
    /\ UNCHANGED <<listeners_lock, client>>
    /\ UNCHANGED driver_type_finder
    /\ UNCHANGED <<drivers_cache, drivers_file, serial_ports, listeners, death_links,
                   remote, handler_pc, pending, history, registered_for>>
    /\ UNCHANGED stream

-----------------------------------------------------------------------------
(* The environment: listener processes, the binder driver, the drivers file *)

\* The process hosting a listener terminates.
ListenerDies(h) ==
    /\ remote[h] = "alive"
    /\ remote' = [remote EXCEPT ![h] = "dead"]
    /\ NoLogs
    /\ UNCHANGED <<listeners_lock, client>>
    /\ UNCHANGED driver_type_finder
    /\ UNCHANGED <<drivers_cache, drivers_file, serial_ports, listeners, death_links,
                   handler_pc, pending, history, registered_for, open_call>>
    /\ UNCHANGED stream

\* The binder driver reports the death of h: every DeathRecipient linked to h
\* runs its callback, which removes h (binder_clone) from the listeners.
DeathNotification(h) ==
    /\ remote[h] = "dead"
    /\ remote' = [remote EXCEPT ![h] = "obituary_sent"]
    /\ LET fired == {l \in death_links : l[1] = h}
       IN  /\ IF fired # {} /\ h \in DOMAIN listeners
              THEN /\ listeners' = MapRemove(listeners, h)
                   /\ registered_for' = MapRemove(registered_for, h)
                   /\ death_links' = death_links \ fired
              ELSE UNCHANGED <<listeners, registered_for, death_links>>
           \* a callback that runs locks listeners for its remove
           /\ lock_log' = IF fired # {} THEN <<{"listeners"}>> ELSE <<>>
           /\ fired # {} => ListenersLockFree
           /\ UNCHANGED listeners_lock
    /\ client' = ClientAfter(listeners', <<>>)
    /\ find_log' = NoFind
    /\ rpc_result' = NoReply
    /\ open_log' = NoOpen
    /\ notified' = <<>>
    /\ UNCHANGED driver_type_finder
    /\ UNCHANGED <<drivers_cache, drivers_file, serial_ports, handler_pc, pending,
                   history, open_call>>
    /\ UNCHANGED stream

\* The system rewrites the drivers file (a driver is loaded or unloaded).
DriversFileChanged(f) ==
    /\ f # drivers_file
    /\ drivers_file' = f
    /\ NoLogs
    /\ UNCHANGED <<listeners_lock, client>>
    /\ UNCHANGED driver_type_finder
    /\ UNCHANGED <<drivers_cache, serial_ports, listeners, death_links, remote,
                   handler_pc, pending, history, registered_for, open_call>>
    /\ UNCHANGED stream

-----------------------------------------------------------------------------
(* The service: the event task, the binder threads and the environment     *)

Next ==
    \/ \E ev \in Events, stat_ok \in BOOLEAN : HandleDeviceEvent(ev, stat_ok)
    \/ FanOut
    \/ StreamEnds
    \/ \E uid \in Uids : getSerialPorts(uid)
    \/ \E h \in Listeners, uid \in Uids : registerSerialPortListener(h, uid)
    \/ \E h \in Listeners, uid \in Uids : unregisterSerialPortListener(h, uid)
    \/ \E p \in PortNames, flags \in OpenFlags, exclusive \in BOOLEAN, uid \in Uids :
          requestOpenCheck(p, flags, exclusive, uid)
    \/ \E open_errno \in OpenErrnos, ioctl_errno \in IoctlErrnos :
          requestOpenOpen(open_errno, ioctl_errno)
    \/ \E write_ok \in BOOLEAN : dump(write_ok)
    \/ \E h \in Listeners : ListenerDies(h)
    \/ \E h \in Listeners : DeathNotification(h)
    \/ \E f \in FileIds : DriversFileChanged(f)

Spec == Init /\ [][Next]_vars

\* The finder alone, as its unit tests drive it.
FinderNext ==
    \/ \E major \in Majors, minor \in Minors : FindByDevnum(major, minor)
    \/ \E f \in FileIds : DriversFileChanged(f)

SpecFinder == Init /\ [][FinderNext]_vars

\* A new finder on any of the files a reload is looked at with.
ReloadInit ==
    /\ drivers_cache = <<>>
    /\ drivers_file \in ReloadFileIds
    /\ find_log = NoFind
    /\ driver_type_finder = NoFinderCalls
    /\ ManagerInit

\* The finder alone, over those files.
ReloadNext ==
    \/ \E major \in Majors, minor \in Minors : FindByDevnum(major, minor)
    \/ \E f \in ReloadFileIds : DriversFileChanged(f)

SpecReload == ReloadInit /\ [][ReloadNext]_vars

\* The finder behind its Mutex, find taken step by step, with two tasks that
\* hold the Arc.
FinderLockNext ==
    \/ \E u \in FinderUsers, major \in Majors, minor \in Minors : FindLocks(u, major, minor)
    \/ \E u \in FinderUsers : FindLooksUp(u)
    \/ \E u \in FinderUsers : ReloadClears(u)
    \/ \E u \in FinderUsers : ReloadPushes(u)
    \/ \E u \in FinderUsers : ReloadEnds(u)
    \/ \E u \in FinderUsers : FindLooksUpAgain(u)

SpecFinderLock == ReloadInit /\ [][FinderLockNext]_vars

\* The drivers file as it is on a device.
InitReal == Init /\ drivers_file = "real"

\* The events of one serial port and of a node that is no serial port.
PortEvents ==
    {ev \in Events : /\ ev.device_type = "DeviceNode"
                     /\ file_name(ev.devnode_path) \in {Some("ttyACM0"), Some("alien")}}

\* The event task and the clients that register and unregister listeners.
ListenersNext ==
    \/ \E ev \in PortEvents, stat_ok \in BOOLEAN : HandleDeviceEvent(ev, stat_ok)
    \/ FanOut
    \/ \E h \in Listeners, uid \in Uids : registerSerialPortListener(h, uid)
    \/ \E h \in Listeners, uid \in Uids : unregisterSerialPortListener(h, uid)

SpecListeners == InitReal /\ [][ListenersNext]_vars

\* The event task, system server registering and unregistering listeners, and
\* listener processes that die.
DeathsNext ==
    \/ \E ev \in PortEvents, stat_ok \in BOOLEAN : HandleDeviceEvent(ev, stat_ok)
    \/ FanOut
    \/ \E h \in Listeners : registerSerialPortListener(h, AID_SYSTEM)
    \/ \E h \in Listeners : unregisterSerialPortListener(h, AID_SYSTEM)
    \/ \E h \in Listeners : ListenerDies(h)
    \/ \E h \in Listeners : DeathNotification(h)

SpecDeaths == InitReal /\ [][DeathsNext]_vars

\* The event task and the callers of the four ISerialManager methods, with
\* one listener to register.
RpcNext ==
    \/ \E ev \in PortEvents, stat_ok \in BOOLEAN : HandleDeviceEvent(ev, stat_ok)
    \/ FanOut
    \/ \E uid \in Uids : getSerialPorts(uid)
    \/ \E uid \in Uids : registerSerialPortListener(ListenerOrder[1], uid)
    \/ \E uid \in Uids : unregisterSerialPortListener(ListenerOrder[1], uid)
    \/ \E p \in PortNames, flags \in OpenFlags, exclusive \in BOOLEAN, uid \in Uids :
          requestOpenCheck(p, flags, exclusive, uid)
    \/ \E open_errno \in OpenErrnos, ioctl_errno \in IoctlErrnos :
          requestOpenOpen(open_errno, ioctl_errno)

SpecRpc == InitReal /\ [][RpcNext]_vars

\* Every path into the two maps: the event task, the ISerialManager methods,
\* dump, and the death of the listener.
FrameNext ==
    \/ RpcNext
    \/ \E write_ok \in BOOLEAN : dump(write_ok)
    \/ ListenerDies(ListenerOrder[1])
    \/ DeathNotification(ListenerOrder[1])

SpecFrame == InitReal /\ [][FrameNext]_vars

\* The events of two serial ports, and ttyACM0 coming back as another device.
ReplugEvents ==
    {ev \in Events : file_name(ev.devnode_path) \in {Some("ttyS0"), Some("ttyACM0")}}
        \cup {DeviceNodeEvent("Add", <<"dev", "ttyACM0">>, VirtualDevice)}

\* The two callbacks of the event task with listeners that come and go.
CallbacksNext ==
    \/ \E ev \in ReplugEvents, stat_ok \in BOOLEAN : HandleDeviceEvent(ev, stat_ok)
    \/ FanOut
    \/ \E h \in Listeners : registerSerialPortListener(h, AID_SYSTEM)
    \/ \E h \in Listeners : unregisterSerialPortListener(h, AID_SYSTEM)

SpecCallbacks == InitReal /\ [][CallbacksNext]_vars

\* The event task from its start to the end of the stream, over every kind of
\* event and of drivers file, with one listener registering.
EventsNext ==
    \/ \E ev \in Events, stat_ok \in BOOLEAN : HandleDeviceEvent(ev, stat_ok)
    \/ FanOut
    \/ StreamEnds
    \/ \E f \in FileIds : DriversFileChanged(f)
    \/ registerSerialPortListener(ListenerOrder[1], AID_SYSTEM)

SpecEvents == Init /\ [][EventsNext]_vars

\* SerialManager::new over either file of the scenario.
ScenarioInit ==
    /\ drivers_cache = <<>>
    /\ drivers_file \in ScenarioFileIds
    /\ find_log = NoFind
    /\ driver_type_finder = NoFinderCalls
    /\ ManagerInit

\* The event task from its start over either file, with one listener.
ScenarioNext ==
    \/ \E ev \in ReplugEvents, stat_ok \in BOOLEAN : HandleDeviceEvent(ev, stat_ok)
    \/ FanOut
    \/ registerSerialPortListener(ListenerOrder[1], AID_SYSTEM)

SpecScenario == ScenarioInit /\ [][ScenarioNext]_vars

\* ttyACM0 appearing below every chain of ancestors, and going away.
UsbIdEvents ==
    {DeviceNodeEvent("Add", <<"dev", "ttyACM0">>, device) : device \in ChainDevices}
        \cup {DeviceNodeEvent("Remove", <<"dev", "ttyACM0">>, NoDevice)}

\* The event task looking up the USB ids of the devices it is told of.
UsbIdsNext ==
    \/ \E ev \in UsbIdEvents : HandleDeviceEvent(ev, TRUE)
    \/ FanOut

SpecUsbIds == InitReal /\ [][UsbIdsNext]_vars

\* ttyACM0 coming and going.
AcmEvents == {ev \in PortEvents : file_name(ev.devnode_path) = Some("ttyACM0")}

\* The fan-out pass by pass, with system server's calls to register and to
\* unregister waiting for the listeners lock, and a listener process dying.
FanOutLockNext ==
    \/ \E ev \in AcmEvents : HandleDeviceEvent(ev, TRUE)
    \/ FanOutLocks
    \/ FanOutCalls
    \/ FanOutUnlocks
    \/ \E h \in Listeners : ReachesListenersLock("registerSerialPortListener", h)
    \/ \E h \in Listeners : ReachesListenersLock("unregisterSerialPortListener", h)
    \/ \E h \in Listeners :
          /\ <<"registerSerialPortListener", h>> \in listeners_lock.waiting
          /\ registerSerialPortListener(h, AID_SYSTEM)
    \/ \E h \in Listeners :
          /\ <<"unregisterSerialPortListener", h>> \in listeners_lock.waiting
          /\ unregisterSerialPortListener(h, AID_SYSTEM)
    \/ ListenerDies(ListenerOrder[1])
    \/ DeathNotification(ListenerOrder[1])

SpecFanOutLock == InitReal /\ [][FanOutLockNext]_vars

\* The event task, and a client that registers a listener, asks for the ports
\* and keeps its list by the callbacks, next to another listener.
ClientNext ==
    \/ \E ev \in ReplugEvents, stat_ok \in BOOLEAN : HandleDeviceEvent(ev, stat_ok)
    \/ FanOut
    \/ \E h \in Listeners : registerSerialPortListener(h, AID_SYSTEM)
    \/ \E h \in Listeners : unregisterSerialPortListener(h, AID_SYSTEM)
    \/ ClientGetsSerialPorts

SpecClient == InitReal /\ [][ClientNext]_vars

\* Events of a device type that is no device node, and device-node events
\* whose path ends in no name: "/" and "/dev/..".
NamelessEvents ==
    {[event_type |-> t, device_type |-> "Other", devnode_path |-> path,
      device |-> VirtualDevice] :
        t \in {"Add", "Remove"}, path \in {<<>>, <<"dev", "ttyACM0">>}}
    \cup {DeviceNodeEvent(t, path, UsbDevice) :
             t \in {"Add", "Remove"}, path \in {<<>>, <<"dev", "..">>}}

\* The event task on a stream that carries such events between those of
\* ttyACM0, with a listener registering.
NamelessNext ==
    \/ \E ev \in AcmEvents \cup NamelessEvents, stat_ok \in BOOLEAN :
          HandleDeviceEvent(ev, stat_ok)
    \/ FanOut
    \/ registerSerialPortListener(ListenerOrder[1], AID_SYSTEM)
    \/ \E f \in {"real", "unreadable"} : DriversFileChanged(f)

SpecNameless == InitReal /\ [][NamelessNext]_vars

\* The length of the longest finite stream.
MaxStream == 3

\* What a finite stream carries: ttyACM0 coming and going, a node that is no
\* serial port, a path without a name, and a node whose name is no UTF-8.
StreamEvents ==
    AcmEvents
        \cup {DeviceNodeEvent("Add", <<"dev", "alien">>, VirtualDevice),
              DeviceNodeEvent("Add", <<>>, VirtualDevice),
              DeviceNodeEvent("Add", <<"dev", NonUtf8Name>>, VirtualDevice)}

FiniteStreams == UNION {[1..n -> StreamEvents] : n \in 0..MaxStream}

\* A service started on a finite stream.
StreamInit ==
    /\ FinderInit
    /\ drivers_file = "real"
    /\ ManagerStart
    /\ \E events \in FiniteStreams :
          stream = [finite |-> TRUE, events |-> events, taken |-> 0, completed |-> 0]

\* The steps of the event task.
EventTaskRuns ==
    \/ \E ev \in StreamEvents, stat_ok \in BOOLEAN : HandleDeviceEvent(ev, stat_ok)
    \/ FanOut
    \/ StreamEnds

\* The event task on a finite stream, with a listener that registers.
StreamNext ==
    \/ EventTaskRuns
    \/ registerSerialPortListener(ListenerOrder[1], AID_SYSTEM)

\* The runtime goes on polling the spawned task, stream.next() returns (the
\* stream is finite) and every listener call returns: a step of the event task
\* that can be taken is taken.
SpecStream == StreamInit /\ [][StreamNext]_vars /\ WF_vars(EventTaskRuns)

-----------------------------------------------------------------------------
(* What the claims about the finder speak of, stated on the file's text    *)

Serial == <<"s","e","r","i","a","l">>

Console == <<"c","o","n","s","o","l","e">>

NonBlank(line) == \E i \in 1..Len(line) : ~IsWhitespace(line[i])

\* The lines that are not blank, each split into its fields.
RECURSIVE NonBlankParts(_)
NonBlankParts(lines) ==
    IF lines = <<>> THEN <<>>
    ELSE IF NonBlank(Head(lines))
         THEN <<split_whitespace(Head(lines))>> \o NonBlankParts(Tail(lines))
         ELSE NonBlankParts(Tail(lines))

\* The lines of the file that are not blank, each split into its fields.
TableLines(f) == NonBlankParts(Lines(read_to_string(f).text))

LineWellFormed(parts) ==
    /\ Len(parts) = 5
    /\ ParseU32(parts[3]).ok
    /\ LET minor == split(parts[4], "-")
       IN  /\ ParseU32(minor[1]).ok
           /\ Len(minor) >= 2 => ParseU32(minor[2]).ok

\* A well-formed table: readable, every non-blank line of 5 fields with
\* decimal major and minor bounds.
WellFormed(f) ==
    /\ read_to_string(f).ok
    /\ \A i \in 1..Len(TableLines(f)) : LineWellFormed(TableLines(f)[i])

\* A readable table with a line that is not well-formed.
Malformed(f) ==
    /\ read_to_string(f).ok
    /\ \E i \in 1..Len(TableLines(f)) : ~LineWellFormed(TableLines(f)[i])

RECURSIVE EntriesOfLines(_)
EntriesOfLines(table_lines) ==
    IF table_lines = <<>> THEN <<>>
    ELSE <<DriverInfoOfParts(Head(table_lines)).value>> \o EntriesOfLines(Tail(table_lines))

\* The entries of a well-formed table, in file order.
TableEntries(f) == EntriesOfLines(TableLines(f))

\* The lookup just made missed the cache it started from.
FirstLookupMissed ==
    \A i \in 1..Len(find_log.cache_before) :
        ~DriverMatches(find_log.cache_before[i], find_log.major, find_log.minor)

\* C4 (as claimed): after a reload triggered by a cache miss the cache is the
\* full list of entries of the table file (reload succeeded) or empty (reload
\* failed).
C4_ReloadFullOrEmpty ==
    (find_log.called /\ find_log.reload # "none") =>
        \/ /\ find_log.reload = "ok"
           /\ find_log.cache_after = TableEntries(find_log.file)
        \/ /\ find_log.reload = "failed"
           /\ find_log.cache_after = <<>>

\* C5: on a well-formed table a lookup that starts from an empty cache returns
\* the driver type of the first entry, in table order, whose major is the
\* device's and whose inclusive minor range holds the device's minor, and
\* fails with NotFound when there is none.
C5_FirstMatchInTableOrder ==
    (find_log.called /\ find_log.cache_before = <<>> /\ WellFormed(find_log.file)) =>
        LET es == TableEntries(find_log.file)
            hits == {i \in 1..Len(es) : DriverMatches(es[i], find_log.major, find_log.minor)}
        IN  IF hits = {}
            THEN ~find_log.result.ok /\ find_log.result.err = "NotFound"
            ELSE /\ find_log.result.ok
                 /\ \E i \in hits : /\ \A j \in hits : i <= j
                                    /\ find_log.result.value = es[i].driver_type

\* C5 witness: two entries of the table match (4, 80) and the first one wins.
C5_Witness ==
    /\ find_log.called /\ find_log.cache_before = <<>>
    /\ find_log.file = "overlap" /\ find_log.major = 4 /\ find_log.minor = 80
    /\ find_log.result = Ok(Serial)

-----------------------------------------------------------------------------
(* What the claims about the manager speak of                              *)

LastHandled == history[Len(history)]

\* The fan-out that is due is that of a Remove for the name whose Add, the
\* event handled just before it, classified as a serial port.
AddThenRemove ==
    /\ handler_pc = "fanout"
    /\ pending.kind = "onSerialPortDisconnected"
    /\ history # <<>>
    /\ LastHandled.event_type = "Add"
    /\ LastHandled.outcome = "added"
    /\ LastHandled.name = pending.info.name

\* h registered before the handling of the event before the current one
\* began, and has been in the listener set ever since.
StaysRegistered(h) == h \in DOMAIN registered_for /\ registered_for[h] >= 2

\* C1: when the Add for n that classifies is followed at once by the Remove
\* for n, every listener that stays registered throughout was called exactly
\* once in the fan-out of the Add (onSerialPortConnected(n)) and is called
\* exactly once, with onSerialPortDisconnected(n), in the fan-out of the
\* Remove that comes after it, and n is absent from the registry afterwards.
C1_AddThenRemoveNotifiesOnceEach ==
    [][(AddThenRemove /\ handler_pc' = "idle") =>
          /\ pending.info.name \notin DOMAIN serial_ports'
          /\ \A h \in Listeners : StaysRegistered(h) =>
                /\ Cardinality({i \in DOMAIN LastHandled.calls :
                                   LastHandled.calls[i] = h}) = 1
                /\ Cardinality({i \in DOMAIN notified' : notified'[i].listener = h}) = 1
                /\ \A i \in DOMAIN notified' : notified'[i].listener = h =>
                      /\ notified'[i].kind = "onSerialPortDisconnected"
                      /\ notified'[i].info.name = pending.info.name]_vars

\* C1 witness: the Add for ttyACM0 was fanned out to a listener that is still
\* registered, and the Remove for ttyACM0 that followed it has left the
\* registry and is about to be fanned out.
C1_Witness ==
    /\ AddThenRemove
    /\ pending.info.name = "ttyACM0"
    /\ \E h \in Listeners : StaysRegistered(h) /\ remote[h] = "alive"

\* C2 (as claimed): a registration answered with the duplicate error leaves
\* the listener set as it was, the entry of the handle included.
C2_DuplicateLeavesEntry ==
    [][(/\ rpc_result'.op = "registerSerialPortListener"
        /\ rpc_result'.message = "Duplicate listener") => listeners' = listeners]_vars

\* C3 (as claimed): the death notification for a registered listener whose
\* process has terminated removes its entry from the listener set.
C3_DeathNotificationRemovesEntry ==
    [][\A h \in Listeners :
          (remote[h] = "dead" /\ remote'[h] = "obituary_sent") =>
              h \notin DOMAIN listeners']_vars

\* The uids that are neither system nor root.
Unprivileged == {uid \in Uids : uid \notin {AID_SYSTEM, AID_ROOT}}

\* C8: requestOpen by system or root for a name that is not in the registry
\* at the check returns the invalid-argument exception at once, with no open
\* and no ioctl, and with the registry and the listener set as they were.
C8_UnknownPortIsInvalidArgument ==
    [][\A p \in PortNames, flags \in OpenFlags, exclusive \in BOOLEAN,
          uid \in Uids \ Unprivileged :
          (p \notin DOMAIN serial_ports /\ requestOpenCheck(p, flags, exclusive, uid)) =>
              /\ rpc_result'.op = "requestOpen"
              /\ rpc_result'.status = "ILLEGAL_ARGUMENT"
              /\ ~open_call'.active
              /\ open_log' = NoOpen
              /\ UNCHANGED <<serial_ports, listeners>>]_vars

\* C8 witness: requestOpen was refused as an invalid argument while the
\* registry held a port (of another name).
C8_Witness ==
    /\ rpc_result.op = "requestOpen"
    /\ rpc_result.status = "ILLEGAL_ARGUMENT"
    /\ DOMAIN serial_ports = {"ttyACM0"}

\* An ISerialManager call that returns the security exception and leaves the
\* registry and the listener set as they were; it opens no file and starts no
\* open.
Refused(op) ==
    /\ rpc_result'.op = op
    /\ rpc_result'.status = "SECURITY"
    /\ open_log' = NoOpen
    /\ UNCHANGED <<serial_ports, listeners, open_call>>

\* C9: registerSerialPortListener, unregisterSerialPortListener and
\* requestOpen by a uid other than system or root return the security
\* exception and change nothing, whether or not the listener is registered
\* or the port is in the registry; getSerialPorts answers every uid.
C9_OnlySystemAndRootGetThrough ==
    [][/\ \A uid \in Unprivileged, h \in Listeners :
             /\ registerSerialPortListener(h, uid) =>
                   Refused("registerSerialPortListener")
             /\ unregisterSerialPortListener(h, uid) =>
                   Refused("unregisterSerialPortListener")
       /\ \A uid \in Unprivileged, p \in PortNames, flags \in OpenFlags,
             exclusive \in BOOLEAN :
             requestOpenCheck(p, flags, exclusive, uid) => Refused("requestOpen")
       /\ \A uid \in Uids :
             getSerialPorts(uid) =>
                 /\ rpc_result'.status = "ok"
                 /\ rpc_result'.ports = {serial_ports[n] : n \in DOMAIN serial_ports}]_vars

\* C9 witness: requestOpen was refused for its caller's uid while a port was
\* in the registry and a listener in the listener set.
C9_Witness ==
    /\ rpc_result.op = "requestOpen"
    /\ rpc_result.status = "SECURITY"
    /\ "ttyACM0" \in DOMAIN serial_ports
    /\ listeners # EmptyMap

\* C10 (as claimed): the open step of requestOpen opens /dev/<port_name> with
\* the access mode that flags asks for (flags & O_ACCMODE).
C10_OpensWithAccessModeAsked ==
    [][(open_call.active /\ ~open_call'.active) =>
          /\ open_log'.opened
          /\ open_log'.path = <<"dev", open_call.port_name>>
          /\ open_log'.access_mode = BitAnd(open_call.flags, O_ACCMODE)]_vars

\* The step is the open of a requestOpen that passed its checks.
OpenStep == open_call.active /\ ~open_call'.active

\* C11: requestOpen returns a descriptor only when the open and the ioctl both
\* succeeded; the ioctl is TIOCEXCL for exclusive = true and TIOCNXCL for
\* exclusive = false, made on the file just opened; a failed open is followed
\* by no ioctl, and a failed ioctl by no descriptor (the file is closed); the
\* error returned carries the errno of the call that failed.
C11_DescriptorOnlyAfterOpenAndIoctl ==
    [][OpenStep =>
          /\ rpc_result'.op = "requestOpen"
          /\ rpc_result'.fd.valid <=>
                /\ open_log'.opened /\ open_log'.errno = 0
                /\ open_log'.ioctl # "none" /\ open_log'.ioctl_errno = 0
          /\ rpc_result'.fd.valid =>
                /\ rpc_result'.status = "ok"
                /\ rpc_result'.fd.path = open_log'.path
                /\ ~open_log'.closed
          /\ (open_log'.opened /\ open_log'.errno = 0) =>
                open_log'.ioctl = IF open_call.exclusive THEN "TIOCEXCL" ELSE "TIOCNXCL"
          /\ (open_log'.opened /\ open_log'.errno # 0) =>
                /\ open_log'.ioctl = "none"
                /\ rpc_result'.status = "SERVICE_SPECIFIC"
                /\ rpc_result'.message = "open() failed"
                /\ rpc_result'.errno = open_log'.errno
          /\ open_log'.ioctl_errno # 0 =>
                /\ open_log'.closed
                /\ rpc_result'.status = "SERVICE_SPECIFIC"
                /\ rpc_result'.message = "ioctl() failed"
                /\ rpc_result'.errno = open_log'.ioctl_errno]_vars

\* C11 witness: the open succeeded, TIOCEXCL failed, the file was closed and
\* requestOpen returned the ioctl's errno.
C11_Witness ==
    /\ rpc_result.op = "requestOpen"
    /\ rpc_result.message = "ioctl() failed"
    /\ rpc_result.errno = 25
    /\ open_log.opened /\ open_log.ioctl = "TIOCEXCL" /\ open_log.closed

\* C12: every open() made by requestOpen has O_NOCTTY among its flags.
C12_EveryOpenHasNoCtty ==
    open_log.opened => BitAnd(open_log.flags, O_NOCTTY) = O_NOCTTY

\* C12 witness: an open made for a caller who passed O_RDWR | O_NONBLOCK.
C12_Witness ==
    /\ open_log.opened
    /\ BitAnd(open_log.flags, O_NONBLOCK) = O_NONBLOCK
    /\ BitAnd(open_log.flags, O_ACCMODE) = O_RDWR

\* The step is the registry update of on_device_added / on_device_removed.
AddedStep ==
    handler_pc = "idle" /\ handler_pc' = "fanout" /\ pending'.kind = "onSerialPortConnected"

RemovedStep ==
    handler_pc = "idle" /\ handler_pc' = "fanout" /\ pending'.kind = "onSerialPortDisconnected"

\* The step is the listener loop of on_device_added / on_device_removed.
ConnectedFanOutStep ==
    handler_pc = "fanout" /\ handler_pc' = "idle" /\ pending.kind = "onSerialPortConnected"

DisconnectedFanOutStep ==
    handler_pc = "fanout" /\ handler_pc' = "idle" /\ pending.kind = "onSerialPortDisconnected"

\* How many of the calls went to listener h.
CallsTo(calls, h) == Cardinality({i \in DOMAIN calls : calls[i].listener = h})

\* C13: on_device_added(info) makes the registry map info.name to info, in
\* place of any record the name had, and leaves the other names alone; its
\* fan-out calls onSerialPortConnected(info) once on each listener that is in
\* the listener set when the loop runs, and on no other.
C13_AddedOverwritesAndNotifiesAll ==
    [][/\ AddedStep =>
             /\ DOMAIN serial_ports' = DOMAIN serial_ports \cup {pending'.info.name}
             /\ serial_ports'[pending'.info.name] = pending'.info
             /\ \A n \in DOMAIN serial_ports :
                   n # pending'.info.name => serial_ports'[n] = serial_ports[n]
       /\ ConnectedFanOutStep =>
             /\ \A h \in Listeners :
                   CallsTo(notified', h) = IF h \in DOMAIN listeners THEN 1 ELSE 0
             /\ \A i \in DOMAIN notified' :
                   /\ notified'[i].kind = "onSerialPortConnected"
                   /\ notified'[i].info = pending.info
             /\ serial_ports[pending.info.name] = pending.info
             /\ UNCHANGED <<serial_ports, listeners>>]_vars

\* C13 witness: the Add for ttyACM0 that is about to be fanned out follows a
\* classified Add for ttyACM0, so the name was in the registry already; two
\* listeners are registered and the registry holds another port.
C13_Witness ==
    /\ handler_pc = "fanout"
    /\ pending.kind = "onSerialPortConnected"
    /\ pending.info.subsystem = "virtual"
    /\ history # <<>>
    /\ LastHandled.event_type = "Add" /\ LastHandled.outcome = "added"
    /\ LastHandled.name = pending.info.name
    /\ DOMAIN listeners = Listeners
    /\ "ttyS0" \in DOMAIN serial_ports

\* The event task takes a Remove event for a device node called name.
RemoveEventStep(name) ==
    \E ev \in Events, stat_ok \in BOOLEAN :
        /\ ev.event_type = "Remove"
        /\ ev.device_type = "DeviceNode"
        /\ file_name(ev.devnode_path) = Some(name)
        /\ HandleDeviceEvent(ev, stat_ok)

\* The step changes neither map and comes to no listener call.
NoOpStep ==
    /\ UNCHANGED <<serial_ports, listeners>>
    /\ handler_pc' = "idle"
    /\ pending' = NoPending
    /\ notified' = <<>>

\* C14: on_device_removed(name) for a name that is not in the registry changes
\* nothing and calls no listener; for a name that is in it, it removes that
\* entry and no other, and its fan-out calls onSerialPortDisconnected with the
\* record the registry held for the name once on each registered listener;
\* the same Remove right after a completed removal is a no-op.
C14_RemovedTakesEntryAndNotifiesAll ==
    [][/\ \A name \in PortNames :
             RemoveEventStep(name) =>
                 /\ name \notin DOMAIN serial_ports => NoOpStep
                 /\ name \in DOMAIN serial_ports =>
                       /\ DOMAIN serial_ports' = DOMAIN serial_ports \ {name}
                       /\ \A n \in DOMAIN serial_ports' : serial_ports'[n] = serial_ports[n]
                       /\ handler_pc' = "fanout"
                       /\ pending'.kind = "onSerialPortDisconnected"
                       /\ pending'.info = serial_ports[name]
                       /\ pending'.info.name = name
                       /\ UNCHANGED listeners
                 /\ (/\ history # <<>>
                     /\ LastHandled.event_type = "Remove"
                     /\ LastHandled.outcome = "removed"
                     /\ LastHandled.name = name) => NoOpStep
       /\ DisconnectedFanOutStep =>
             /\ \A h \in Listeners :
                   CallsTo(notified', h) = IF h \in DOMAIN listeners THEN 1 ELSE 0
             /\ \A i \in DOMAIN notified' :
                   /\ notified'[i].kind = "onSerialPortDisconnected"
                   /\ notified'[i].info = pending.info
             /\ pending.info.name \notin DOMAIN serial_ports
             /\ UNCHANGED <<serial_ports, listeners>>]_vars

\* C14 witness: the removal of ttyACM0, whose record was the one of its second
\* Add, was fanned out to two listeners and left ttyS0 in the registry.
C14_Witness ==
    /\ handler_pc = "idle"
    /\ history # <<>>
    /\ LastHandled.event_type = "Remove" /\ LastHandled.outcome = "removed"
    /\ LastHandled.name = "ttyACM0"
    /\ Len(notified) = 2
    /\ \A i \in DOMAIN notified :
          /\ notified[i].kind = "onSerialPortDisconnected"
          /\ notified[i].info.subsystem = "virtual"
    /\ DOMAIN serial_ports = {"ttyS0"}

\* The step is the listener loop of a callback, and a call of it fails.
FailingFanOutStep ==
    /\ handler_pc = "fanout" /\ handler_pc' = "idle"
    /\ \E i \in DOMAIN notified' : ~notified'[i].ok

\* C15: in a fan-out where the call to a listener fails, every listener of the
\* set is still called once, the registry keeps what the event did to it, and
\* the listener set stays as it is; an entry leaves the listener set only in
\* a successful unregisterSerialPortListener for its handle or in the death
\* notification for it.
C15_FailedDeliveryRemovesNothing ==
    [][/\ FailingFanOutStep =>
             /\ \A h \in DOMAIN listeners : CallsTo(notified', h) = 1
             /\ UNCHANGED <<serial_ports, listeners>>
             /\ pending.kind = "onSerialPortConnected" =>
                   /\ pending.info.name \in DOMAIN serial_ports'
                   /\ serial_ports'[pending.info.name] = pending.info
             /\ pending.kind = "onSerialPortDisconnected" =>
                   pending.info.name \notin DOMAIN serial_ports'
       /\ \A h \in Listeners :
             (h \in DOMAIN listeners /\ h \notin DOMAIN listeners') =>
                 \/ /\ rpc_result'.op = "unregisterSerialPortListener"
                    /\ rpc_result'.status = "ok"
                 \/ remote[h] = "dead" /\ remote'[h] = "obituary_sent"]_vars

\* C15 witness: the fan-out of an Add called the first listener, whose process
\* is gone, in vain and then the second one, and both are still registered.
C15_Witness ==
    /\ handler_pc = "idle"
    /\ history # <<>>
    /\ LastHandled.outcome = "added"
    /\ Len(notified) = 2
    /\ ~notified[1].ok
    /\ notified[2].ok
    /\ DOMAIN listeners = Listeners
    /\ LastHandled.name \in DOMAIN serial_ports

\* The uids that get through check_permissions.
Privileged == Uids \ Unprivileged

NotFound == Status("unregisterSerialPortListener", "SERVICE_SPECIFIC", "Listener not found")

\* C16: unregisterSerialPortListener by system or root for a handle that is
\* not in the listener set returns "Listener not found" and leaves the set and
\* the registry as they were; for a registered handle it removes the entry of
\* that handle and no other; a handle comes into the set only by a
\* registration, and a fan-out calls no listener that is not in the set when
\* the fan-out starts, so none that was unregistered before.
C16_UnregisterRemovesOnlyThatEntry ==
    [][/\ \A h \in Listeners, uid \in Privileged :
             unregisterSerialPortListener(h, uid) =>
                 /\ h \notin DOMAIN listeners =>
                       /\ rpc_result' = NotFound
                       /\ UNCHANGED <<listeners, serial_ports, handler_pc, pending>>
                 /\ h \in DOMAIN listeners =>
                       /\ rpc_result'.status = "ok"
                       /\ DOMAIN listeners' = DOMAIN listeners \ {h}
                       /\ \A g \in DOMAIN listeners' : listeners'[g] = listeners[g]
                       /\ UNCHANGED <<serial_ports, handler_pc, pending>>
       /\ \A h \in Listeners :
             (h \notin DOMAIN listeners /\ h \in DOMAIN listeners') =>
                 rpc_result'.op = "registerSerialPortListener"
       /\ (handler_pc = "fanout" /\ handler_pc' = "idle") =>
             \A h \in Listeners : h \notin DOMAIN listeners => CallsTo(notified', h) = 0]_vars

\* C16 witness: listener1 was unregistered while an event waits for its
\* fan-out, which will go to listener2 alone.
C16_Witness ==
    /\ rpc_result = Status("unregisterSerialPortListener", "ok", "")
    /\ handler_pc = "fanout"
    /\ DOMAIN listeners = {ListenerOrder[2]}

\* The event task takes the Add event ev for a named device node.
AddEventStep(ev, stat_ok) ==
    /\ ev.event_type = "Add"
    /\ ev.device_type = "DeviceNode"
    /\ file_name(ev.devnode_path) # None
    /\ HandleDeviceEvent(ev, stat_ok)

\* C17: an Add event whose lookup fails, be it that fs::metadata fails, that
\* the reload of the table fails or that the table has no entry for the device
\* numbers, leaves the registry and the listener set as they were and comes to
\* no callback; the event task is then ready for the next event, and it ends
\* only when the stream does.
C17_FailedLookupStopsNothing ==
    [][/\ \A ev \in Events, stat_ok \in BOOLEAN :
             (AddEventStep(ev, stat_ok) /\ (~stat_ok \/ ~find_log'.result.ok)) =>
                 /\ NoOpStep
                 /\ history' # <<>>
                 /\ history'[Len(history')].outcome = "unsupported"
                 /\ history'[Len(history')].calls = <<>>
       /\ (handler_pc # "done" /\ handler_pc' = "done") => StreamEnds]_vars

\* C17 witness: the event handled last was an Add whose lookup failed, and the
\* event task has since taken the next event, an Add that it classified and
\* is about to fan out.
C17_Witness ==
    /\ history # <<>>
    /\ LastHandled.event_type = "Add"
    /\ LastHandled.outcome = "unsupported"
    /\ handler_pc = "fanout"
    /\ pending.kind = "onSerialPortConnected"
    /\ DOMAIN listeners # {}

\* The callback the step invoked: for an absent name on_device_removed
\* returns at once, and the event is at its end.
CallbackOfStep ==
    IF handler_pc' = "fanout"
    THEN IF pending'.kind = "onSerialPortConnected"
         THEN [hook |-> "on_device_added", name |-> pending'.info.name]
         ELSE [hook |-> "on_device_removed", name |-> pending'.info.name]
    ELSE IF history'[Len(history')].outcome = "not_registered"
         THEN [hook |-> "on_device_removed", name |-> history'[Len(history')].name]
         ELSE [hook |-> "none", name |-> ""]

\* C18: an event comes to a find_by_devnum call only if it is the Add of a
\* named device node, and to one callback at most, on_device_added only for
\* such an Add; a Remove event comes to no lookup, leaves the finder's cache
\* as it is, and, when it names a device node, to one on_device_removed call
\* with that name, whether the name is in the registry or not.
C18_OneLookupOneCallback ==
    [][\A ev \in Events, stat_ok \in BOOLEAN :
          HandleDeviceEvent(ev, stat_ok) =>
              /\ find_log'.called =>
                    /\ ev.event_type = "Add"
                    /\ ev.device_type = "DeviceNode"
                    /\ file_name(ev.devnode_path) # None
                    /\ find_log'.major = rdev(file_name(ev.devnode_path)[1]).major
                    /\ find_log'.minor = rdev(file_name(ev.devnode_path)[1]).minor
              /\ CallbackOfStep.hook = "on_device_added" => find_log'.called
              /\ handler_pc' \in {"idle", "fanout"}
              /\ handler_pc' = "fanout" <=> pending' # NoPending
              /\ ev.event_type = "Remove" =>
                    /\ find_log' = NoFind
                    /\ UNCHANGED drivers_cache
                    /\ (ev.device_type = "DeviceNode" /\ file_name(ev.devnode_path) # None) =>
                          CallbackOfStep = [hook |-> "on_device_removed",
                                            name |-> file_name(ev.devnode_path)[1]]]_vars

\* C18 witness: the Remove for ttyACM0 was handled to its end while no Add had
\* ever been classified (the finder never loaded a table).
C18_Witness ==
    /\ history # <<>>
    /\ LastHandled.event_type = "Remove"
    /\ LastHandled.name = "ttyACM0"
    /\ LastHandled.outcome = "not_registered"
    /\ find_log = NoFind
    /\ drivers_cache = <<>>
    /\ serial_ports = EmptyMap

\* The step takes an event from the stream.
TakesEvent == \E ev \in Events \cup ReplugEvents, stat_ok \in BOOLEAN : HandleDeviceEvent(ev, stat_ok)

\* C19: the event task takes an event only when no event is in progress, the
\* one taken before having been handled to the end of its fan-out; a fan-out
\* delivers the event in progress and no other, to every listener of the set,
\* and ends that event, which is then the last one of the events handled. So
\* events end in the order they were taken, and each listener is called in
\* that order.
C19_OneEventAtATime ==
    [][/\ TakesEvent =>
             /\ handler_pc = "idle"
             /\ pending = NoPending
       /\ (pending # NoPending /\ pending' # pending) =>
             /\ handler_pc = "fanout" /\ handler_pc' = "idle"
             /\ pending' = NoPending
             /\ Len(notified') = Cardinality(DOMAIN listeners)
             /\ \A i \in DOMAIN notified' :
                   /\ notified'[i].kind = pending.kind
                   /\ notified'[i].info = pending.info
             /\ history'[Len(history')].name = pending.info.name
             /\ history'[Len(history')].event_type = pending.event_type
             /\ history'[Len(history')].calls = ListenerKeys(listeners)
       /\ notified' # <<>> => pending # NoPending
       /\ (handler_pc = "fanout" /\ handler_pc' # "fanout") => pending' = NoPending]_vars

\* C19 witness: the Add for ttyACM0 was fanned out to both listeners before
\* the Remove for ttyS0, which is now in progress, was taken.
C19_Witness ==
    /\ handler_pc = "fanout"
    /\ pending.kind = "onSerialPortDisconnected"
    /\ pending.info.name = "ttyS0"
    /\ history # <<>>
    /\ LastHandled.event_type = "Add"
    /\ LastHandled.name = "ttyACM0"
    /\ LastHandled.calls = ListenerOrder

\* The USB ancestors of the device whose idVendor is there and is read as a
\* number, by their place in the chain (1 is the nearest).
ReadableUsbAncestors(device) ==
    {i \in DOMAIN device.ancestors :
        /\ device.ancestors[i].subsystem = "usb"
        /\ read_hex_attr(device.ancestors[i].idVendor).ok}

\* The nearest of them.
Chosen(device) ==
    CHOOSE i \in ReadableUsbAncestors(device) : \A j \in ReadableUsbAncestors(device) : i <= j

\* The device with everything above its i nearest ancestors taken away.
CutAbove(device, i) ==
    [device_subsystem |-> device.device_subsystem,
     ancestors |-> SubSeq(device.ancestors, 1, i)]

\* C20: for the device of an Add that is classified, the vendor id reported is
\* that of the nearest USB ancestor whose idVendor is there and parses, USB
\* ancestors without such an idVendor and ancestors outside USB being passed
\* over; the product id is that ancestor's idProduct, or -1 when it is missing
\* or does not parse; what lies above that ancestor makes no difference.
C20_NearestUsbAncestorWithVendorId ==
    (pending.kind = "onSerialPortConnected" /\ ReadableUsbAncestors(pending.device) # {}) =>
        LET chosen == pending.device.ancestors[Chosen(pending.device)]
        IN  /\ pending.info.vendorId = read_hex_attr(chosen.idVendor).value
            /\ pending.info.productId =
                  IF read_hex_attr(chosen.idProduct).ok
                  THEN read_hex_attr(chosen.idProduct).value
                  ELSE -1
            /\ find_for_device(CutAbove(pending.device, Chosen(pending.device))) =
                  [vendor_id |-> pending.info.vendorId,
                   product_id |-> pending.info.productId]

\* C20 witness: below a directory outside USB with ids of its own, a USB one
\* without idVendor and a USB one with idVendor 0bda and no idProduct, the
\* device was given vendor id 0x0bda and product id -1.
C20_Witness ==
    /\ pending.kind = "onSerialPortConnected"
    /\ Len(pending.device.ancestors) = 3
    /\ pending.device.ancestors[1].subsystem = "serial-base"
    /\ pending.device.ancestors[2] = Ancestor("usb", None, Some(<<"0","0","0","2">>))
    /\ pending.device.ancestors[3].idProduct = None
    /\ pending.info.vendorId = 3034
    /\ pending.info.productId = -1

\* The ancestor is a USB one whose idVendor is there and, trimmed, is one or
\* more hexadecimal digits.
HasReadableVendorId(a) ==
    /\ a.subsystem = "usb"
    /\ a.idVendor # None
    /\ trim(a.idVendor[1]) # <<>>
    /\ \A i \in DOMAIN trim(a.idVendor[1]) : IsHexDigit(trim(a.idVendor[1])[i])

\* C21: for the device of every classified Add, each turn of the loop of
\* find_for_device moves to an ancestor strictly further up or ends the loop,
\* so the loop ends within the length of the chain; the ids it returns are
\* integers, and both are -1 when no USB ancestor of the chain has a readable
\* idVendor.
C21_AlwaysReturnsAndDefaults ==
    pending.kind = "onSerialPortConnected" =>
        /\ \A from \in 0..Len(pending.device.ancestors) :
              \/ parent_with_subsystem(pending.device, from, "usb") = 0
              \/ /\ parent_with_subsystem(pending.device, from, "usb") > from
                 /\ parent_with_subsystem(pending.device, from, "usb")
                       <= Len(pending.device.ancestors)
        /\ pending.info.vendorId \in Int
        /\ pending.info.productId \in Int
        /\ (\A i \in DOMAIN pending.device.ancestors :
               ~HasReadableVendorId(pending.device.ancestors[i])) =>
              /\ pending.info.vendorId = -1
              /\ pending.info.productId = -1

\* C21 witness: the device has three ancestors, USB ones without a readable
\* idVendor and one outside USB with ids of its own, and was given -1 and -1.
C21_Witness ==
    /\ pending.kind = "onSerialPortConnected"
    /\ Len(pending.device.ancestors) = 3
    /\ pending.device.ancestors[1].idVendor = Some(<<"x","y">>)
    /\ pending.device.ancestors[2].subsystem = "serial-base"
    /\ pending.device.ancestors[3] = Ancestor("usb", None, Some(<<"0","0","0","2">>))
    /\ pending.info.vendorId = -1
    /\ pending.info.productId = -1

\* The Add of /dev/ttyS0: major 4, minor 80, subsystem serial-base, no USB
\* ancestor.
AddTtyS0 == DeviceNodeEvent("Add", <<"dev", "ttyS0">>, UartDevice)

InfoTtyS0 ==
    [name |-> "ttyS0", subsystem |-> "serial-base", driverType |-> Serial,
     vendorId |-> -1, productId |-> -1]

\* The record of a classified Add is put together from the path, the finder's
\* result, the device's subsystem and the ids of find_for_device.
RecordOfClassifiedAdd ==
    \A ev \in ReplugEvents, stat_ok \in BOOLEAN :
        (AddEventStep(ev, stat_ok) /\ handler_pc' = "fanout") =>
            /\ pending'.kind = "onSerialPortConnected"
            /\ pending'.info.name = ev.devnode_path[Len(ev.devnode_path)]
            /\ find_log'.called /\ find_log'.result.ok
            /\ pending'.info.driverType = find_log'.result.value
            /\ pending'.info.subsystem =
                  IF ev.device.device_subsystem = None THEN "virtual"
                  ELSE ev.device.device_subsystem[1]
            /\ pending'.info.vendorId = find_for_device(ev.device).vendor_id
            /\ pending'.info.productId = find_for_device(ev.device).product_id
            /\ serial_ports'[pending'.info.name] = pending'.info

\* The Add of /dev/ttyS0 is classified and gives {ttyS0, serial-base, serial,
\* -1, -1}.
YieldsInfoTtyS0 ==
    /\ handler_pc' = "fanout"
    /\ pending'.kind = "onSerialPortConnected"
    /\ pending'.info = InfoTtyS0

\* C22 (as claimed): the record of every Add that is classified has the last
\* component of the device-node path as its name, the driver type the finder
\* returned, the device's subsystem or "virtual", and the ids of
\* find_for_device; and with the table line `serial 4 64-95 serial` the Add of
\* /dev/ttyS0 gives {ttyS0, serial-base, serial, -1, -1}.
C22_RecordAndFourFieldScenario ==
    [][/\ RecordOfClassifiedAdd
       /\ (drivers_file = "four_fields" /\ HandleDeviceEvent(AddTtyS0, TRUE)) =>
             YieldsInfoTtyS0]_vars

\* C22 (amended): the same of the record; the Add of /dev/ttyS0 gives {ttyS0,
\* serial-base, serial, -1, -1} with the table line in the five fields of the
\* drivers file, `serial /dev/ttyS 4 64-95 serial`; with the line in four
\* fields the reload fails, and the Add comes to no record and no callback.
C22_RecordAndFiveFieldScenario ==
    [][/\ RecordOfClassifiedAdd
       /\ (drivers_file = "real" /\ HandleDeviceEvent(AddTtyS0, TRUE)) =>
             YieldsInfoTtyS0
       /\ (drivers_file = "four_fields" /\ HandleDeviceEvent(AddTtyS0, TRUE)) =>
             /\ NoOpStep
             /\ ~find_log'.result.ok
             /\ find_log'.reload = "failed"]_vars

\* C22 witness: the Add of /dev/ttyS0 is classified and in progress, and the
\* registry holds a record of subsystem "virtual" for ttyACM0.
C22_Witness ==
    /\ handler_pc = "fanout"
    /\ pending.kind = "onSerialPortConnected"
    /\ pending.info = InfoTtyS0
    /\ pending.device = UartDevice
    /\ "ttyACM0" \in DOMAIN serial_ports
    /\ serial_ports["ttyACM0"].subsystem = "virtual"

\* C23: getSerialPorts returns the records the registry holds at the instant
\* of the call under its lock, one per registered name and no other, and
\* leaves the registry, the listener set and the event in progress as they are.
C23_SnapshotOfRegistry ==
    [][\A uid \in Uids :
          getSerialPorts(uid) =>
              /\ rpc_result'.op = "getSerialPorts"
              /\ rpc_result'.status = "ok"
              /\ \A n \in DOMAIN serial_ports : serial_ports[n] \in rpc_result'.ports
              /\ \A r \in rpc_result'.ports :
                    r.name \in DOMAIN serial_ports /\ serial_ports[r.name] = r
              /\ Cardinality(rpc_result'.ports) = Cardinality(DOMAIN serial_ports)
              /\ UNCHANGED <<serial_ports, listeners, handler_pc, pending>>]_vars

\* C23 witness: getSerialPorts returned the record of ttyACM0 after the event
\* task had put it into the registry and before it told the listeners.
C23_Witness ==
    /\ rpc_result.op = "getSerialPorts"
    /\ handler_pc = "fanout"
    /\ pending.kind = "onSerialPortConnected"
    /\ rpc_result.ports = {pending.info}
    /\ pending.info.name = "ttyACM0"

\* The step is one of the event task.
EventTaskStep ==
    \/ \E ev \in PortEvents, stat_ok \in BOOLEAN : HandleDeviceEvent(ev, stat_ok)
    \/ FanOut

\* C24 (as claimed): no step of the event task queries the metadata of a
\* device node or opens one; a device node is opened only in the open step of
\* a requestOpen.
C24_EventTaskNeverBlocksOnDeviceNode ==
    [][/\ EventTaskStep =>
             /\ find_log'.metadata_queries = 0
             /\ ~open_log'.opened
       /\ open_log'.opened => open_call.active]_vars

\* The call returned without an error.
ReturnsOk == rpc_result'.status = "ok"

\* C25 (as claimed): a handle comes into the listener set by a successful
\* registration and by nothing else, and is out of it after a successful
\* unregistration and after the death notification for it, which are the only
\* steps that take it out; so it is in the set exactly from its latest
\* successful registration to the first of the two that follows.
C25_InSetFromSubscribeToRemoval ==
    [][\A h \in Listeners :
          /\ (registerSerialPortListener(h, AID_SYSTEM) /\ ReturnsOk) =>
                h \in DOMAIN listeners'
          /\ (unregisterSerialPortListener(h, AID_SYSTEM) /\ ReturnsOk) =>
                h \notin DOMAIN listeners'
          /\ DeathNotification(h) => h \notin DOMAIN listeners'
          /\ (h \notin DOMAIN listeners /\ h \in DOMAIN listeners') =>
                (registerSerialPortListener(h, AID_SYSTEM) /\ ReturnsOk)
          /\ (h \in DOMAIN listeners /\ h \notin DOMAIN listeners') =>
                \/ unregisterSerialPortListener(h, AID_SYSTEM) /\ ReturnsOk
                \/ DeathNotification(h)]_vars

\* The step handles an Add for a device node called name whose lookup
\* succeeds.
ClassifiedAddStep(name) ==
    \E ev \in ReplugEvents, stat_ok \in BOOLEAN :
        /\ file_name(ev.devnode_path) = Some(name)
        /\ AddEventStep(ev, stat_ok)
        /\ find_log'.called
        /\ find_log'.result.ok

\* C26: step by step, a name is in the registry after a step exactly when the
\* step handled a classified Add for it, or the name was in the registry and
\* the step handled no Remove for it; the record of the name is that of the
\* Add in the first case and the one it had in the second; and every key of
\* the registry is the name of its record.
C26_RegistryFollowsAddsAndRemoves ==
    [][/\ \A n \in DOMAIN serial_ports' : serial_ports'[n].name = n
       /\ \A n \in PortNames :
             /\ n \in DOMAIN serial_ports' <=>
                   \/ ClassifiedAddStep(n)
                   \/ n \in DOMAIN serial_ports /\ ~RemoveEventStep(n)
             /\ ClassifiedAddStep(n) => serial_ports'[n] = pending'.info
             /\ (n \in DOMAIN serial_ports' /\ ~ClassifiedAddStep(n)) =>
                   serial_ports'[n] = serial_ports[n]]_vars

\* C26 witness: ttyS0 was added and its Remove has been handled to its end;
\* ttyACM0, added a second time as a device without subsystem, is in the
\* registry with the record of that Add.
C26_Witness ==
    /\ handler_pc = "idle"
    /\ history # <<>>
    /\ LastHandled.event_type = "Remove"
    /\ LastHandled.name = "ttyS0"
    /\ LastHandled.outcome = "removed"
    /\ DOMAIN serial_ports = {"ttyACM0"}
    /\ serial_ports["ttyACM0"].subsystem = "virtual"
    /\ serial_ports["ttyACM0"].vendorId = 7531

\* C27: the registry changes only in the registry update of on_device_added
\* and on_device_removed: no step that returns from getSerialPorts,
\* registerSerialPortListener, unregisterSerialPortListener, requestOpen or
\* dump, no step of a requestOpen under way and no death of a listener or
\* death notification changes it; and no step of the event task changes the
\* listener set, which changes only in steps that return from a registration
\* or an unregistration.
C27_RegistryOnlyByCallbacks ==
    [][/\ serial_ports' # serial_ports => (AddedStep \/ RemovedStep)
       /\ rpc_result'.op # "none" => UNCHANGED serial_ports
       /\ open_call' # open_call => UNCHANGED serial_ports
       /\ remote' # remote => UNCHANGED serial_ports
       /\ (handler_pc' # handler_pc \/ pending' # pending \/ history' # history
              \/ find_log' # NoFind \/ notified' # <<>>) => UNCHANGED listeners
       /\ listeners' # listeners =>
             rpc_result'.op \in {"registerSerialPortListener",
                                 "unregisterSerialPortListener"}]_vars

\* C27 witness: with a port registered and a listener whose death has been
\* notified, dump has written the registry.
C27_Witness ==
    /\ rpc_result.op = "dump"
    /\ rpc_result.status = "ok"
    /\ rpc_result.ports = values(serial_ports)
    /\ serial_ports # EmptyMap
    /\ remote[ListenerOrder[1]] = "obituary_sent"
    /\ ListenerOrder[1] \in DOMAIN listeners

\* C28: the open step of a requestOpen looks at the registry no more: for a
\* port that passed the check and has since been removed it opens
\* /dev/<port_name> all the same, whenever the flags give an access mode, and
\* returns a descriptor of that path when open() and the ioctl succeed.
C28_OpenDoesNotLookAgain ==
    [][(OpenStep /\ open_call.port_name \notin DOMAIN serial_ports
                 /\ get_access_mode(OpenOptionsOf(open_call.flags)).ok) =>
          /\ open_log'.opened
          /\ open_log'.path = <<"dev", open_call.port_name>>
          /\ (open_log'.errno = 0 /\ open_log'.ioctl_errno = 0) =>
                /\ rpc_result'.status = "ok"
                /\ rpc_result'.fd.valid
                /\ rpc_result'.fd.path = <<"dev", open_call.port_name>>
          /\ UNCHANGED serial_ports]_vars

\* C28 witness: requestOpen has returned a descriptor of /dev/ttyACM0 while
\* ttyACM0 is not in the registry, its Remove having been handled to the end
\* of its fan-out, listener included, after the check and before the open.
C28_Witness ==
    /\ rpc_result.op = "requestOpen"
    /\ rpc_result.fd.valid
    /\ rpc_result.fd.path = <<"dev", "ttyACM0">>
    /\ "ttyACM0" \notin DOMAIN serial_ports
    /\ handler_pc = "idle"
    /\ history # <<>>
    /\ LastHandled.event_type = "Remove"
    /\ LastHandled.name = "ttyACM0"
    /\ LastHandled.outcome = "removed"
    /\ LastHandled.calls = <<ListenerOrder[1]>>

\* The locks held together in some critical section of the last step.
HeldTogether == {lock_log[i] : i \in DOMAIN lock_log}

\* C29: no thread holds the serial_ports lock and the listeners lock at the
\* same time (every critical section holds one lock, so no thread waits for
\* a lock while it holds another), and the serial_ports lock is not held in
\* a step that delivers a listener notification or opens a device file.
C29_NoLockOrderHazard ==
    /\ \A held \in HeldTogether :
           /\ ~({"serial_ports", "listeners"} \subseteq held)
           /\ Cardinality(held) <= 1
    /\ notified # <<>> => \A held \in HeldTogether : "serial_ports" \notin held
    /\ open_log.opened => \A held \in HeldTogether : "serial_ports" \notin held

\* A fan-out has just called a listener under the listeners lock alone, while
\* a requestOpen call stands between its check and its open.
C29_Witness ==
    /\ Len(notified) >= 1
    /\ lock_log = <<{"listeners"}>>
    /\ open_call.active
    /\ serial_ports # EmptyMap

\* The binders of a set in the order of the keys of the BTreeMap.
InKeyOrder(binders) ==
    LET keep(h) == h \in binders IN SelectSeq(ListenerOrder, keep)

\* C30: from the step in which the event task locks listeners for a fan-out
\* to the step in which the loop ends, the listener set stays what it was when
\* the lock was taken and every register or unregister call that has come to
\* the lock goes on waiting; each pass of the loop calls one listener of that
\* set that was not called yet, and when the loop ends every listener of the
\* set has been called once, in key order.
C30_FanOutSeesOneListenerSet ==
    [][/\ listeners_lock.holder = "event_task" =>
             /\ UNCHANGED listeners
             /\ listeners_lock.began_with = DOMAIN listeners
             /\ listeners_lock.waiting \subseteq listeners_lock'.waiting
             /\ rpc_result' = NoReply
       /\ notified' # <<>> =>
             /\ listeners_lock.holder = "event_task"
             /\ Len(notified') = 1
             /\ notified'[1].listener \in listeners_lock.began_with
             /\ \A k \in DOMAIN listeners_lock.called :
                   listeners_lock.called[k] # notified'[1].listener
             /\ listeners_lock'.called = Append(listeners_lock.called, notified'[1].listener)
       /\ (handler_pc = "fanout_loop" /\ handler_pc' # "fanout_loop") =>
             /\ listeners_lock.called = InKeyOrder(listeners_lock.began_with)
             /\ history'[Len(history')].calls = listeners_lock.called
             /\ listeners_lock'.holder = "none"]_vars

\* C30 witness: the fan-out of an Add has called listener1 and has listener2
\* still to call, while a call to unregister listener2 and a call to register
\* listener1 again wait for the lock.
C30_Witness ==
    /\ handler_pc = "fanout_loop"
    /\ pending.kind = "onSerialPortConnected"
    /\ listeners_lock.holder = "event_task"
    /\ listeners_lock.began_with = Listeners
    /\ listeners_lock.called = <<ListenerOrder[1]>>
    /\ listeners_lock.waiting = {<<"unregisterSerialPortListener", ListenerOrder[2]>>,
                                 <<"registerSerialPortListener", ListenerOrder[1]>>}
    /\ DOMAIN listeners = Listeners

\* C31: while the client that registered its listener and then got the ports
\* stays registered, its list (the snapshot, kept up by the callbacks it was
\* sent) is the registry whenever no event is in progress, and differs from
\* it by nothing but the event whose fan-out is due otherwise: no port that
\* was added is missing from it, and none that was removed stays on it.
C31_ClientMissesNoPort ==
    client.synced =>
        /\ ClientListener \in DOMAIN listeners
        /\ handler_pc = "idle" => client.ports = values(serial_ports)
        /\ handler_pc = "fanout" =>
              PortsAfter(client.ports, [kind |-> pending.kind, info |-> pending.info])
                  = values(serial_ports)

\* C31 witness: ttyACM0 is on the client's list and has been removed from the
\* registry since; the fan-out that tells the client is due, and the list
\* holds ttyS0 as well.
C31_Witness ==
    /\ client.synced
    /\ handler_pc = "fanout"
    /\ pending.kind = "onSerialPortDisconnected"
    /\ pending.info.name = "ttyACM0"
    /\ pending.info \in client.ports
    /\ "ttyACM0" \notin DOMAIN serial_ports
    /\ \E port \in client.ports : port.name = "ttyS0"
    /\ DOMAIN listeners = Listeners

\* The step is a find_by_devnum call that repeats the call of the step before
\* it: the same device numbers, and the same contents of the drivers file.
RepeatedLookupStep ==
    /\ find_log.called
    /\ find_log'.called
    /\ find_log'.major = find_log.major
    /\ find_log'.minor = find_log.minor
    /\ find_log'.file = find_log.file

\* C32: with the drivers file unchanged, a find_by_devnum call that repeats
\* the call before it comes to the same outcome: it fails if that one failed,
\* and returns the same driver type if that one returned one.
C32_RepeatedLookupSameOutcome ==
    [][RepeatedLookupStep =>
          /\ find_log'.result.ok = find_log.result.ok
          /\ find_log.result.ok => find_log'.result.value = find_log.result.value]_vars

\* The decimal numeral of n.
RECURSIVE ToDecimal(_)
ToDecimal(n) ==
    IF n < 10 THEN <<DecDigits[n + 1]>>
    ELSE ToDecimal(n \div 10) \o <<DecDigits[(n % 10) + 1]>>

\* A text of decimal digits and nothing else.
IsDecimal(text) == text # <<>> /\ \A k \in 1..Len(text) : IsDecDigit(text[k])

\* A text of decimal digits without the zeros it leads with.
RECURSIVE WithoutLeadingZeros(_)
WithoutLeadingZeros(text) ==
    IF Len(text) > 1 /\ Head(text) = "0" THEN WithoutLeadingZeros(Tail(text)) ELSE text

\* The text is a decimal number, and n is its value.
IsNumeral(text, n) == IsDecimal(text) /\ WithoutLeadingZeros(text) = ToDecimal(n)

\* The places of character c in the text.
PlacesOf(text, c) == {k \in 1..Len(text) : text[k] = c}

\* The text before place k and the text after it.
Before(text, k) == SubSeq(text, 1, k - 1)

After(text, k) == SubSeq(text, k + 1, Len(text))

First(places) == CHOOSE k \in places : \A other \in places : k <= other

\* Field 4 is a single number, or lo-hi.
MinorFieldIsDecimal(field) ==
    IF PlacesOf(field, "-") = {} THEN IsDecimal(field)
    ELSE /\ Cardinality(PlacesOf(field, "-")) = 1
         /\ IsDecimal(Before(field, First(PlacesOf(field, "-"))))
         /\ IsDecimal(After(field, First(PlacesOf(field, "-"))))

\* A line of 5 fields whose major and minor bounds are decimal numbers.
RowParses(row) ==
    /\ Len(row) = 5
    /\ IsDecimal(row[3])
    /\ MinorFieldIsDecimal(row[4])

\* The cache entry is what the line says: major is field 3, the minor range is
\* field 4 (N for N..N, or lo-hi), the driver type is field 5 up to its first
\* colon.
EntryOfRow(entry, row) ==
    /\ IsNumeral(row[3], entry.major)
    /\ IF PlacesOf(row[4], "-") = {}
       THEN /\ IsNumeral(row[4], entry.minor_from)
            /\ entry.minor_to = entry.minor_from
       ELSE /\ IsNumeral(Before(row[4], First(PlacesOf(row[4], "-"))), entry.minor_from)
            /\ IsNumeral(After(row[4], First(PlacesOf(row[4], "-"))), entry.minor_to)
    /\ IF PlacesOf(row[5], ":") = {}
       THEN entry.driver_type = row[5]
       ELSE entry.driver_type = Before(row[5], First(PlacesOf(row[5], ":")))

\* C33: a reload of a readable file succeeds exactly when every non-blank line
\* has 5 fields with a decimal major and decimal minor bounds; the cache it
\* leaves then has one entry for each non-blank line, in file order, with the
\* major of field 3, the inclusive minor range of field 4 (N alone for N..N,
\* or lo-hi) and, as driver type, field 5 up to its first colon.
C33_ReloadParsesEveryLine ==
    (find_log.called /\ find_log.reload # "none" /\ read_to_string(find_log.file).ok) =>
        LET rows == TableLines(find_log.file)
        IN  /\ find_log.reload = "ok" <=> \A k \in 1..Len(rows) : RowParses(rows[k])
            /\ find_log.reload = "ok" =>
                  /\ Len(find_log.cache_after) = Len(rows)
                  /\ \A k \in 1..Len(rows) : EntryOfRow(find_log.cache_after[k], rows[k])

\* C33 witness: the reload of the file of four lines, two of them blank, left
\* two entries: (5, 7..7, system) and (166, 0..255, serial), the latter from
\* the tag "serial:a:b".
C33_Witness ==
    /\ find_log.called /\ find_log.reload = "ok"
    /\ find_log.file = "blanks"
    /\ Len(Lines(FileBlanks)) = 4
    /\ find_log.cache_after =
          <<[major |-> 5, minor_from |-> 7, minor_to |-> 7,
             driver_type |-> <<"s","y","s","t","e","m">>],
            [major |-> 166, minor_from |-> 0, minor_to |-> 255, driver_type |-> Serial]>>

\* C34: the handling of an event that is no device-node event, or of a
\* device-node event whose path ends in no name, makes no lookup (no
\* fs::metadata, no search of the cache, no read of the drivers file), calls
\* neither callback (no lock is taken, no listener is called), leaves the
\* registry, the listener set and the cache as they were, and ends with the
\* event task waiting for the next event.
C34_NamelessEventsAreDropped ==
    [][\A ev \in NamelessEvents, stat_ok \in BOOLEAN :
          HandleDeviceEvent(ev, stat_ok) =>
              /\ find_log' = NoFind
              /\ lock_log' = <<>>
              /\ notified' = <<>>
              /\ pending' = NoPending
              /\ UNCHANGED <<serial_ports, listeners, drivers_cache>>
              /\ AwaitsNextEvent'
              /\ history'[Len(history')].calls = <<>>
              /\ history'[Len(history')].outcome
                    \in {"unexpected_device_type", "no_device_name"}]_vars

\* C34 witness: a Remove that is no device-node event was dropped while
\* ttyACM0 is registered and a listener is there to be told, and the event
\* task waits for the next event.
C34_Witness ==
    /\ history # <<>>
    /\ LastHandled.event_type = "Remove"
    /\ LastHandled.outcome = "unexpected_device_type"
    /\ "ttyACM0" \in DOMAIN serial_ports
    /\ DOMAIN listeners = {ListenerOrder[1]}
    /\ handler_pc = "idle"
    /\ find_log = NoFind

\* The whole stream was taken and every event of it handled to its end, and
\* run() has returned.
StreamDone ==
    /\ handler_pc = "done"
    /\ stream.taken = Len(stream.events)
    /\ stream.completed = Len(stream.events)

\* C35 (as claimed): on a finite stream, with every listener call returning,
\* the event task takes the events one at a time, each after the one before it
\* was handled to its end, and in the end it has taken and handled every event
\* of the stream once and has returned from run().
C35_FiniteStreamHandledOnce ==
    /\ [](stream.completed <= stream.taken /\ stream.taken <= stream.completed + 1)
    /\ <>StreamDone

\* The finds that are reading the cache, and the finds whose reload has the
\* cache borrowed mutably.
LookingUp == {u \in FinderUsers : driver_type_finder.calls[u].pc \in {"lookup", "lookup_again"}}

Reloading == {u \in FinderUsers : driver_type_finder.calls[u].pc \in {"clear", "refill"}}

\* C36: a lookup and a reload never overlap. A find is under way only in the
\* task that holds the Mutex of the finder, so while the reload of one task is
\* clearing or refilling the cache no task is at a lookup; and every find
\* returns what find_by_devnum returns when it runs alone on the cache that
\* the find started with, and leaves the cache that it leaves.
C36_LookupAndReloadNeverOverlap ==
    /\ \A u \in FinderUsers :
          driver_type_finder.calls[u].pc # "none" => driver_type_finder.holder = u
    /\ Reloading # {} => LookingUp = {}
    /\ find_log.called =>
          find_log = FindLog(find_log.cache_before, find_log.file,
                             find_log.major, find_log.minor)

\* The event task is in the middle of a refill, the cache holding a part of
\* the table, and the other task has no find under way.
C36_Witness ==
    /\ driver_type_finder.holder = "event_task"
    /\ driver_type_finder.calls["event_task"].pc = "refill"
    /\ driver_type_finder.calls["event_task"].lines # <<>>
    /\ drivers_cache # <<>>
    /\ driver_type_finder.calls["start_new_caller"].pc = "none"

=============================================================================
